---- MODULE Spec2Model ----
(***************************************************************************)
(* A model of loxxx, a tree-walking interpreter for Lox written in Python. *)
(*                                                                         *)
(* The evaluator (interpreter.py, callable.py, environment.py) is modelled *)
(* as a big-step evaluator over a heap of environments, functions, classes *)
(* and instances.  Python exceptions are modelled as the signal a result   *)
(* carries: "ok", "return" (FunctionReturn), "runtime" (LoxRuntimeError)   *)
(* or the name of the host exception (TypeError, KeyError, ...).           *)
(***************************************************************************)
EXTENDS Integers, Sequences, FiniteSets, TLC

(***************************************************************************)
(* Bounds of the model.                                                    *)
(***************************************************************************)
MaxSteps == 3
MaxIter == 2

(***************************************************************************)
(* Lox values.  Every value is a record of the same shape: a case tag t,   *)
(* a number n (the float, the bool as 0/1, or the heap index of a          *)
(* function, class or instance) and a string s.                            *)
(***************************************************************************)
Nil == [t |-> "nil", n |-> 0, s |-> ""]
Bool(b) == [t |-> "bool", n |-> IF b THEN 1 ELSE 0, s |-> ""]
Num(x) == [t |-> "num", n |-> x, s |-> ""]
PyInt(x) == [t |-> "int", n |-> x, s |-> ""]
Str(x) == [t |-> "str", n |-> 0, s |-> x]
FunctionValue(i) == [t |-> "fn", n |-> i, s |-> ""]
ClassValue(i) == [t |-> "class", n |-> i, s |-> ""]
InstanceValue(i) == [t |-> "inst", n |-> i, s |-> ""]
clock == [t |-> "native", n |-> 0, s |-> "clock"]

(***************************************************************************)
(* The syntax tree.  A token is kept as its lexeme (names) or its type     *)
(* (operators); NoneNode is Python's None in an optional field and NoName  *)
(* the None name of an anonymous function.                                 *)
(***************************************************************************)
NoneNode == [k |-> "None"]
NoName == ""
Literal(value) == [k |-> "Literal", value |-> value]
Variable(name) == [k |-> "Variable", name |-> name]
Assign(name, value) == [k |-> "Assign", name |-> name, value |-> value]
Binary(left, operator, right) ==
    [k |-> "Binary", left |-> left, operator |-> operator, right |-> right]
Logical(left, operator, right) ==
    [k |-> "Logical", left |-> left, operator |-> operator, right |-> right]
Unary(operator, right) == [k |-> "Unary", operator |-> operator, right |-> right]
Grouping(expression) == [k |-> "Grouping", expression |-> expression]
Call(callee, arguments) == [k |-> "Call", callee |-> callee, arguments |-> arguments]
Get(object, name) == [k |-> "Get", object |-> object, name |-> name]
Set(object, name, value) ==
    [k |-> "Set", object |-> object, name |-> name, value |-> value]
This == [k |-> "This", name |-> "this"]
FunctionDeclaration(name, params, body) ==
    [k |-> "FunctionDeclaration", name |-> name, params |-> params, body |-> body]

Block(statements) == [k |-> "Block", statements |-> statements]
Class(name, methods) == [k |-> "Class", name |-> name, methods |-> methods]
ExpressionStatement(expression) ==
    [k |-> "ExpressionStatement", expression |-> expression]
If(condition, then_branch, else_branch) ==
    [k |-> "If", condition |-> condition, then_branch |-> then_branch,
     else_branch |-> else_branch]
PrintStatement(expression) == [k |-> "PrintStatement", expression |-> expression]
Return(expression) == [k |-> "Return", expression |-> expression]
VariableDeclaration(name, initializer) ==
    [k |-> "VariableDeclaration", name |-> name, initializer |-> initializer]
While(condition, body) == [k |-> "While", condition |-> condition, body |-> body]

(***************************************************************************)
(* Results of the evaluator: the interpreter state after the step, the     *)
(* value, and the signal with which the step ended.                        *)
(***************************************************************************)
Ok(st, v) == [st |-> st, v |-> v, sig |-> "ok", msg |-> ""]
Raise(st, sig, msg) == [st |-> st, v |-> Nil, sig |-> sig, msg |-> msg]
LoxRuntimeError(st, msg) == Raise(st, "runtime", msg)
FunctionReturn(st, v) == [st |-> st, v |-> v, sig |-> "return", msg |-> ""]

\* Sequencing: With names a value for what follows; Then does so for the
\* result of a step, and what follows is skipped when the step ended with a
\* signal, which then is the result.
With(x, K(_)) == K(x)
Then(r, K(_)) == IF r.sig # "ok" THEN r ELSE K(r)

\* An observation of the run, kept for the properties: kind e, two
\* numbers a and b, the nesting depth d and a signal s.
Event(e, a, b, d, s) == [e |-> e, a |-> a, b |-> b, d |-> d, s |-> s]
Note(st, ev) == [st EXCEPT !.log = Append(@, ev)]

(***************************************************************************)
(* Environment (environment.py).  The heap st.envs is a sequence of        *)
(* [outer, values]; an environment is its index and 0 is None.             *)
(***************************************************************************)
EmptyMap == [x \in {} |-> Nil]
GlobalsId == 1

NewEnvironment(st, outer) ==
    [st EXCEPT !.envs = Append(@, [outer |-> outer, values |-> EmptyMap])]
LastEnv(st) == Len(st.envs)

define(st, env, name, value) ==
    [st EXCEPT !.envs[env].values = (name :> value) @@ @]

RECURSIVE assign(_, _, _, _)
assign(st, env, name, value) ==
    IF name \in DOMAIN st.envs[env].values
    THEN Ok([st EXCEPT !.envs[env].values[name] = value], Nil)
    ELSE IF st.envs[env].outer # 0
    THEN assign(st, st.envs[env].outer, name, value)
    ELSE LoxRuntimeError(st, "Undefined variable")

RECURSIVE get(_, _, _)
get(st, env, name) ==
    IF name \in DOMAIN st.envs[env].values
    THEN Ok(st, st.envs[env].values[name])
    ELSE IF st.envs[env].outer # 0
    THEN get(st, st.envs[env].outer, name)
    ELSE LoxRuntimeError(st, "Undefined variable")

\* The ancestor at the given distance, 0 when the chain ends before it.
RECURSIVE _find_ancestor(_, _, _)
_find_ancestor(st, env, distance) ==
    IF distance = 0 \/ env = 0 THEN env
    ELSE _find_ancestor(st, st.envs[env].outer, distance - 1)

assign_at(st, env, distance, name, value) ==
    LET a == _find_ancestor(st, env, distance)
    IN  IF a = 0 THEN Raise(st, "AttributeError", "NoneType has no _values")
        ELSE Ok(define(st, a, name, value), Nil)

get_at(st, env, distance, name) ==
    LET a == _find_ancestor(st, env, distance)
    IN  IF a = 0 THEN Raise(st, "AttributeError", "NoneType has no _values")
        ELSE IF name \in DOMAIN st.envs[a].values
        THEN Ok(st, st.envs[a].values[name])
        ELSE Raise(st, "KeyError", name)

(***************************************************************************)
(* Python helpers of the evaluator (interpreter.py).                       *)
(***************************************************************************)
IsFloat(v) == v.t = "num"
IsStr(v) == v.t = "str"
IsCallable(v) == v.t \in {"fn", "class", "native"}
IsInstance(v) == v.t = "inst"

\* Python's ==: None equals only None, bool/int/float compare as numbers,
\* strings by content, and objects without __eq__ by identity.
PyEq(a, b) ==
    LET numeric == {"num", "bool", "int"}
    IN  IF a.t \in numeric /\ b.t \in numeric THEN a.n = b.n
        ELSE IF a.t = "str" /\ b.t = "str" THEN a.s = b.s
        ELSE a.t = b.t /\ a.n = b.n /\ a.t # "str"

\* truthiness as Python has it: zero and the empty string are falsy too
_is_truthy_AsPython(o) ==
    IF o.t = "nil" THEN FALSE
    ELSE IF o.t \in {"bool", "num", "int"} THEN o.n # 0
    ELSE IF o.t = "str" THEN o.s # ""
    ELSE TRUE

\* Interpreter._is_truthy
_is_truthy(o) ==
    IF o.t = "nil" THEN FALSE
    ELSE IF o.t = "bool" THEN o.n = 1
    ELSE TRUE

\* _validate_number_operand returns on a non-float and raises on a float.
_validate_number_operand(operand) == ~IsFloat(operand)

_validate_number_operands(left_operand, right_operand) ==
    IsFloat(left_operand) /\ IsFloat(right_operand)

\* hash(expression) of a frozen dataclass hashes the tuple of its fields.
\* Token (scanner.py) is a plain @dataclass with eq, so it has no __hash__,
\* and a list has none either: only Literal and Grouping-of-hashable nodes
\* can be a key of Interpreter.locals.
RECURSIVE Hashable(_)
Hashable(expression) ==
    \/ expression.k = "Literal"
    \/ expression.k = "Grouping" /\ Hashable(expression.expression)

\* Interpreter.resolve: self.locals[expression] = depth
resolve(st, expression, depth) ==
    IF ~Hashable(expression)
    THEN Raise(st, "TypeError", "unhashable type: 'Token'")
    ELSE Ok([st EXCEPT !.locals = (expression :> depth) @@ @], Nil)

\* self.locals.get(expression): the distance, or None.
LocalsGet(st, expression) ==
    IF ~Hashable(expression)
    THEN Raise(st, "TypeError", "unhashable type: 'Token'")
    ELSE IF expression \in DOMAIN st.locals
    THEN Ok(st, PyInt(st.locals[expression]))
    ELSE Ok(st, Nil)

_look_up_variable(st, name, expression) ==
    Then(LocalsGet(st, expression), LAMBDA distance :
         IF distance.v.t # "nil"
         THEN get_at(st, st.environment, distance.v.n, name)
         ELSE get(st, GlobalsId, name))

(***************************************************************************)
(* Callables and instances (callable.py, native.py).                       *)
(***************************************************************************)
NewFunction(st, declaration, closure, is_initializer) ==
    [st EXCEPT !.fns = Append(@, [declaration |-> declaration,
                                  closure |-> closure,
                                  is_initializer |-> is_initializer])]
LastFn(st) == Len(st.fns)

\* Function.bind: a new Function over a new environment that holds this.
bind(st, f, class_instance) ==
    With(NewEnvironment(st, st.fns[f].closure), LAMBDA st1 :
    With(NewFunction(define(st1, LastEnv(st1), "this", class_instance),
                     st.fns[f].declaration, LastEnv(st1), st.fns[f].is_initializer),
         LAMBDA st2 :
         Ok(st2, FunctionValue(LastFn(st2)))))

find_method(st, c, name) ==
    IF name \in DOMAIN st.classes[c].methods
    THEN FunctionValue(st.classes[c].methods[name])
    ELSE Nil

arity(st, callee) ==
    IF callee.t = "fn" THEN Len(st.fns[callee.n].declaration.params)
    ELSE IF callee.t = "class"
    THEN LET initializer == find_method(st, callee.n, "init")
         IN  IF initializer.t # "nil"
             THEN Len(st.fns[initializer.n].declaration.params)
             ELSE 0
    ELSE 0

\* Instance.get with the two lookups in the other order: a method hides a
\* field of the same name.
Instance_get_MethodFirst(st, i, name) ==
    LET method == find_method(st, st.insts[i].class, name)
    IN  IF method.t # "nil"
        THEN bind(st, method.n, InstanceValue(i))
        ELSE IF name \in DOMAIN st.insts[i].fields
        THEN Ok(st, st.insts[i].fields[name])
        ELSE LoxRuntimeError(st, "Undefined property")

\* Instance.get
Instance_get(st, i, name) ==
    IF name \in DOMAIN st.insts[i].fields
    THEN Ok(st, st.insts[i].fields[name])
    ELSE LET method == find_method(st, st.insts[i].class, name)
         IN  IF method.t # "nil"
             THEN bind(st, method.n, InstanceValue(i))
             ELSE LoxRuntimeError(st, "Undefined property")

\* Instance.set
Instance_set(st, i, name, value) ==
    [st EXCEPT !.insts[i].fields = (name :> value) @@ @]

\* for param, argument in zip(params, arguments): environment.define(...)
RECURSIVE DefineParams(_, _, _, _, _)
DefineParams(st, environment, params, arguments, i) ==
    IF i > Len(params) \/ i > Len(arguments) THEN st
    ELSE DefineParams(define(st, environment, params[i], arguments[i]),
                      environment, params, arguments, i + 1)

\* Python's str(value), which print(value) writes: the repr of a float (the
\* floats of the model are whole, so it ends with .0), None, True and False,
\* and __str__ of Function, Class, Instance and clock.
str(st, value) ==
    CASE value.t = "nil" -> "None"
      [] value.t = "bool" -> IF value.n = 1 THEN "True" ELSE "False"
      [] value.t = "num" -> ToString(value.n) \o ".0"
      [] value.t = "int" -> ToString(value.n)
      [] value.t = "str" -> value.s
      [] value.t = "fn" ->
            IF st.fns[value.n].declaration.name # NoName
            THEN "<fn " \o st.fns[value.n].declaration.name \o ">"
            ELSE "<anonymous fn>"
      [] value.t = "class" -> st.classes[value.n].name
      [] value.t = "inst" -> st.classes[st.insts[value.n].class].name \o " instance"
      [] OTHER -> "<native fn>"

\* Interpreter._stringify; for a float, str(value) without the .0 it ends with
_stringify(st, value) ==
    CASE value.t = "nil" -> "nil"
      [] value.t = "bool" -> IF value.n = 1 THEN "true" ELSE "false"
      [] value.t = "num" -> ToString(value.n)
      [] OTHER -> str(st, value)

(***************************************************************************)
(* The evaluator: Interpreter.evaluate and Interpreter.execute, one        *)
(* operator per registered handler, and the calls of callable.py.          *)
(***************************************************************************)
RECURSIVE evaluate(_, _), execute(_, _), execute_block(_, _, _),
          ExecuteStatements(_, _, _), EvaluateArguments(_, _, _, _),
          ExecuteWhile(_, _, _), Function_call(_, _, _), Class_call(_, _, _),
          Callable_call(_, _, _), evaluate_Call(_, _), evaluate_Get(_, _),
          evaluate_Logical(_, _), evaluate_Set(_, _), evaluate_Unary(_, _),
          evaluate_Assign(_, _), evaluate_Binary(_, _),
          evaluate_FunctionDeclaration(_, _), execute_Class(_, _),
          execute_If(_, _), execute_Print(_, _), execute_Return(_, _),
          execute_VariableDeclaration(_, _), DefineMethods(_, _, _, _),
          execute_ExpressionStatement(_, _), execute_Block(_, _)

\* for statement in statements: self.execute(statement)
ExecuteStatements(st, statements, i) ==
    IF i > Len(statements) THEN Ok(st, Nil)
    ELSE Then(execute(st, statements[i]), LAMBDA r :
         ExecuteStatements(r.st, statements, i + 1))

\* execute_block without the finally: the environment is restored only when
\* the statements complete.
execute_block_NoFinally(st, statements, environment) ==
    With(ExecuteStatements([st EXCEPT !.environment = environment, !.depth = @ + 1],
                           statements, 1), LAMBDA r :
    With(IF r.sig = "ok"
         THEN [r.st EXCEPT !.environment = st.environment, !.depth = st.depth]
         ELSE [r.st EXCEPT !.depth = st.depth], LAMBDA restored :
         [r EXCEPT !.st = Note(restored,
                               Event("block", st.environment, restored.environment,
                                     st.depth + 1, r.sig))]))

\* Interpreter.execute_block: try ... finally restores the environment on
\* every way out of the statements.
execute_block(st, statements, environment) ==
    With(ExecuteStatements([st EXCEPT !.environment = environment, !.depth = @ + 1],
                           statements, 1), LAMBDA r :
    With([r.st EXCEPT !.environment = st.environment, !.depth = st.depth],
         LAMBDA restored :
         [r EXCEPT !.st = Note(restored,
                               Event("block", st.environment, restored.environment,
                                     st.depth + 1, r.sig))]))

\* the environment of a call: Environment(self.closure) with the parameters
\* defined in it
CallEnvironment(st, f, arguments) ==
    With(NewEnvironment(st, st.fns[f].closure), LAMBDA st1 :
         Note(DefineParams(st1, LastEnv(st1), st.fns[f].declaration.params,
                           arguments, 1),
              Event("call", f, LastEnv(st1), st.depth, "")))

\* Function.call that hands back the value of a return from an initializer too.
Function_call_ReturnsValue(st, f, arguments) ==
    With(CallEnvironment(st, f, arguments), LAMBDA st1 :
    With(execute_block(st1, st.fns[f].declaration.body, LastEnv(st1)), LAMBDA r :
         IF r.sig = "return" THEN Ok(r.st, r.v)
         ELSE IF r.sig # "ok" THEN r
         ELSE IF st.fns[f].is_initializer
         THEN get_at(r.st, st.fns[f].closure, 0, "this")
         ELSE Ok(r.st, Nil)))

\* Function.call
Function_call(st, f, arguments) ==
    With(CallEnvironment(st, f, arguments), LAMBDA st1 :
    With(execute_block(st1, st.fns[f].declaration.body, LastEnv(st1)), LAMBDA r :
         IF r.sig = "return"
         THEN IF st.fns[f].is_initializer
              THEN get_at(r.st, st.fns[f].closure, 0, "this")
              ELSE Ok(r.st, r.v)
         ELSE IF r.sig # "ok" THEN r
         ELSE IF st.fns[f].is_initializer
         THEN get_at(r.st, st.fns[f].closure, 0, "this")
         ELSE Ok(r.st, Nil)))

\* Class.call
Class_call(st, c, arguments) ==
    With([st EXCEPT !.insts = Append(@, [class |-> c, fields |-> EmptyMap])],
         LAMBDA st1 :
    With(InstanceValue(Len(st1.insts)), LAMBDA instance :
    With(find_method(st1, c, "init"), LAMBDA initializer :
         IF initializer.t # "nil"
         THEN Then(bind(st1, initializer.n, instance), LAMBDA b :
              Then(Function_call(b.st, b.v.n, arguments), LAMBDA r :
                   Ok(r.st, instance)))
         ELSE Ok(st1, instance))))

\* callee.call(self, arguments), by the class of the callee
Callable_call(st, callee, arguments) ==
    IF callee.t = "fn" THEN Function_call(st, callee.n, arguments)
    ELSE IF callee.t = "class" THEN Class_call(st, callee.n, arguments)
    ELSE Ok(st, Num(st.now))

\* [self.evaluate(argument) for argument in expression.arguments]
EvaluateArguments(st, arguments, i, done) ==
    IF i > Len(arguments) THEN Ok(st, done)
    ELSE Then(evaluate(st, arguments[i]), LAMBDA r :
         EvaluateArguments(Note(r.st, Event("arg", i, Len(arguments), st.cdepth, "")),
                           arguments, i + 1, Append(done, r.v)))

\* the nesting depth of calls, kept for the observations, is that of st again
LeaveCall(st, r) == [r EXCEPT !.st.cdepth = st.cdepth]

evaluate_Call(st, expression) ==
    Then(evaluate(st, expression.callee), LAMBDA c :
    With(Len(expression.arguments), LAMBDA n :
         IF ~IsCallable(c.v)
         THEN LoxRuntimeError(c.st, "Can only call functions and classes.")
         ELSE IF n # arity(c.st, c.v)
         THEN LoxRuntimeError(
                  Note(c.st, Event("arity", n, arity(c.st, c.v), c.st.cdepth, "")),
                  "Expected arguments")
         ELSE LeaveCall(st,
                  Then(EvaluateArguments([c.st EXCEPT !.cdepth = @ + 1],
                                         expression.arguments, 1, <<>>), LAMBDA a :
                       Callable_call(Note(a.st, Event("invoke", n, n, a.st.cdepth, "")),
                                     c.v, a.v)))))

evaluate_Get(st, expression) ==
    Then(evaluate(st, expression.object), LAMBDA object :
         IF ~IsInstance(object.v)
         THEN LoxRuntimeError(object.st, "Only instances have properties.")
         ELSE Instance_get(object.st, object.v.n, expression.name))

evaluate_Logical(st, expression) ==
    Then(evaluate(st, expression.left), LAMBDA left :
         IF expression.operator = "OR" /\ _is_truthy(left.v) THEN left
         ELSE IF expression.operator # "OR" /\ ~_is_truthy(left.v) THEN left
         ELSE evaluate(left.st, expression.right))

evaluate_Set(st, expression) ==
    Then(evaluate(st, expression.object), LAMBDA object :
         IF ~IsInstance(object.v)
         THEN LoxRuntimeError(object.st, "Only instances have properties.")
         ELSE Then(evaluate(object.st, expression.value), LAMBDA value :
                   Ok(Instance_set(value.st, object.v.n, expression.name, value.v),
                      value.v)))

evaluate_Unary(st, expression) ==
    Then(evaluate(st, expression.right), LAMBDA right :
         IF expression.operator = "BANG"
         THEN Ok(right.st, Bool(~_is_truthy(right.v)))
         ELSE IF expression.operator = "MINUS"
         THEN IF ~_validate_number_operand(right.v)
              THEN LoxRuntimeError(right.st, "Operand must be a number.")
              ELSE IF right.v.t \in {"bool", "int"}
              THEN Ok(right.st, PyInt(0 - right.v.n))
              ELSE Raise(right.st, "TypeError", "bad operand type for unary -")
         ELSE Raise(right.st, "Exception", "No handler for a binary operator"))

evaluate_Assign(st, expression) ==
    Then(evaluate(st, expression.value), LAMBDA value :
    Then(LocalsGet(value.st, expression), LAMBDA distance :
    Then(IF distance.v.t # "nil"
         THEN assign_at(value.st, value.st.environment, distance.v.n,
                        expression.name, value.v)
         ELSE assign(value.st, GlobalsId, expression.name, value.v), LAMBDA w :
         Ok(w.st, value.v))))

\* the operators of evaluate(Binary) once both operands have their values
BinaryOperator(st, op, left, right) ==
    IF op = "EQUAL_EQUAL" THEN Ok(st, Bool(PyEq(left, right)))
    ELSE IF op = "BANG_EQUAL" THEN Ok(st, Bool(~PyEq(left, right)))
    ELSE IF op = "PLUS"
    THEN IF IsFloat(left) /\ IsFloat(right) THEN Ok(st, Num(left.n + right.n))
         ELSE IF IsStr(left) /\ IsStr(right) THEN Ok(st, Str(left.s \o right.s))
         ELSE LoxRuntimeError(st, "Both operands must be either Numbers or Strings")
    ELSE IF op \in {"MINUS", "SLASH", "STAR", "GREATER", "GREATER_EQUAL",
                    "LESS", "LESS_EQUAL"}
    THEN IF ~_validate_number_operands(left, right)
         THEN LoxRuntimeError(st, "Operands must be numbers.")
         ELSE CASE op = "MINUS" -> Ok(st, Num(left.n - right.n))
                [] op = "SLASH" ->
                      IF right.n = 0 THEN LoxRuntimeError(st, "Division by zero")
                      ELSE Ok(st, Num(left.n \div right.n))
                [] op = "STAR" -> Ok(st, Num(left.n * right.n))
                [] op = "GREATER" -> Ok(st, Bool(left.n > right.n))
                [] op = "GREATER_EQUAL" -> Ok(st, Bool(left.n >= right.n))
                [] op = "LESS" -> Ok(st, Bool(left.n < right.n))
                [] OTHER -> Ok(st, Bool(left.n <= right.n))
    ELSE Raise(st, "Exception", "No handler for a binary operator")

\* evaluate(Binary) with the operands evaluated right then left
evaluate_Binary_RightFirst(st, expression) ==
    Then(evaluate(st, expression.right), LAMBDA r :
    Then(evaluate(r.st, expression.left), LAMBDA l :
         BinaryOperator(l.st, expression.operator, l.v, r.v)))

\* Interpreter.evaluate(Binary)
evaluate_Binary(st, expression) ==
    Then(evaluate(st, expression.left), LAMBDA l :
    Then(evaluate(l.st, expression.right), LAMBDA r :
         BinaryOperator(r.st, expression.operator, l.v, r.v)))

evaluate_FunctionDeclaration(st, expression) ==
    With(NewFunction(st, expression, st.environment, FALSE), LAMBDA st1 :
    With(FunctionValue(LastFn(st1)), LAMBDA function :
         IF expression.name # NoName
         THEN Ok(define(st1, st.environment, expression.name, function), function)
         ELSE Ok(st1, function)))

evaluate(st, expression) ==
    CASE expression.k = "Call" -> evaluate_Call(st, expression)
      [] expression.k = "Get" -> evaluate_Get(st, expression)
      [] expression.k = "Literal" -> Ok(st, expression.value)
      [] expression.k = "Logical" -> evaluate_Logical(st, expression)
      [] expression.k = "Set" -> evaluate_Set(st, expression)
      [] expression.k = "This" -> _look_up_variable(st, "this", expression)
      [] expression.k = "Grouping" -> evaluate(st, expression.expression)
      [] expression.k = "Unary" -> evaluate_Unary(st, expression)
      [] expression.k = "Variable" ->
            _look_up_variable(st, expression.name, expression)
      [] expression.k = "Assign" -> evaluate_Assign(st, expression)
      [] expression.k = "Binary" -> evaluate_Binary(st, expression)
      [] expression.k = "FunctionDeclaration" ->
            evaluate_FunctionDeclaration(st, expression)
      [] OTHER -> Raise(st, "NotImplementedError", "")

\* The dict comprehension of execute(Class): one Function per method, a later
\* method of the same name replacing an earlier one.
DefineMethods(st, methods, i, done) ==
    IF i > Len(methods) THEN Ok(st, done)
    ELSE With(NewFunction(st, methods[i], st.environment, methods[i].name = "init"),
              LAMBDA st1 :
              DefineMethods(st1, methods, i + 1,
                            (methods[i].name :> LastFn(st1)) @@ done))

execute_Class(st, statement) ==
    With(DefineMethods(define(st, st.environment, statement.name, Nil),
                       statement.methods, 1, EmptyMap), LAMBDA m :
    With([m.st EXCEPT !.classes = Append(@, [name |-> statement.name,
                                             methods |-> m.v])], LAMBDA st2 :
         assign(st2, st2.environment, statement.name, ClassValue(Len(st2.classes)))))

execute_If(st, statement) ==
    Then(evaluate(st, statement.condition), LAMBDA c :
         IF _is_truthy(c.v) THEN execute(c.st, statement.then_branch)
         ELSE IF statement.else_branch.k # "None"
         THEN execute(c.st, statement.else_branch)
         ELSE Ok(c.st, Nil))

execute_Print(st, statement) ==
    Then(evaluate(st, statement.expression), LAMBDA value :
         Ok([value.st EXCEPT !.output = Append(@, _stringify(value.st, value.v))],
            Nil))

\* a Return that evaluates its expression and raises nothing
execute_Return_NoUnwind(st, statement) ==
    IF statement.expression.k # "None"
    THEN Then(evaluate(st, statement.expression), LAMBDA value :
              Ok(value.st, Nil))
    ELSE Ok(st, Nil)

execute_Return(st, statement) ==
    IF statement.expression.k # "None"
    THEN Then(evaluate(st, statement.expression), LAMBDA value :
              FunctionReturn(value.st, value.v))
    ELSE FunctionReturn(st, Nil)

execute_VariableDeclaration(st, statement) ==
    IF statement.initializer.k # "None"
    THEN Then(evaluate(st, statement.initializer), LAMBDA value :
              Ok(define(value.st, value.st.environment, statement.name, value.v),
                 Nil))
    ELSE Ok(define(st, st.environment, statement.name, Nil), Nil)

\* while self._is_truthy(self.evaluate(statement.condition)): execute(body)
\* The model follows a loop for MaxIter iterations.
ExecuteWhile(st, statement, i) ==
    Then(evaluate(st, statement.condition), LAMBDA c :
         IF ~_is_truthy(c.v) THEN Ok(c.st, Nil)
         ELSE IF i >= MaxIter THEN Raise(c.st, "bound", "MaxIter")
         ELSE Then(execute(c.st, statement.body), LAMBDA b :
                   ExecuteWhile(b.st, statement, i + 1)))

execute_ExpressionStatement(st, statement) ==
    Then(evaluate(st, statement.expression), LAMBDA r : Ok(r.st, Nil))

execute_Block(st, statement) ==
    With(NewEnvironment(st, st.environment), LAMBDA st1 :
         execute_block(st1, statement.statements, LastEnv(st1)))

execute(st, statement) ==
    CASE statement.k = "Block" -> execute_Block(st, statement)
      [] statement.k = "Class" -> execute_Class(st, statement)
      [] statement.k = "ExpressionStatement" ->
            execute_ExpressionStatement(st, statement)
      [] statement.k = "If" -> execute_If(st, statement)
      [] statement.k = "PrintStatement" -> execute_Print(st, statement)
      [] statement.k = "Return" -> execute_Return(st, statement)
      [] statement.k = "VariableDeclaration" ->
            execute_VariableDeclaration(st, statement)
      [] statement.k = "While" -> ExecuteWhile(st, statement, 0)
      [] OTHER -> Raise(st, "NotImplementedError", "")

\* Interpreter.interpret
interpret(st, statements) == ExecuteStatements(st, statements, 1)

\* Interpreter.interpret_repl: print(self.evaluate(...)) writes str(value)
interpret_repl(st, statements) ==
    IF Len(statements) = 1 /\ statements[1].k = "ExpressionStatement"
    THEN Then(evaluate(st, statements[1].expression), LAMBDA value :
              Ok([value.st EXCEPT !.output = Append(@, str(value.st, value.v))],
                 Nil))
    ELSE interpret(st, statements)

(***************************************************************************)
(* scanner.py.  A source is a sequence of one-character strings; _current  *)
(* and _start count characters from 0 as in the code.  A diagnostic is the *)
(* triple that errors.report prints.                                       *)
(***************************************************************************)
NoChar == "None"
Digits == {"0", "1", "2", "3", "4", "5", "6", "7", "8", "9"}
DigitValue ==
    "0" :> 0 @@ "1" :> 1 @@ "2" :> 2 @@ "3" :> 3 @@ "4" :> 4 @@
    "5" :> 5 @@ "6" :> 6 @@ "7" :> 7 @@ "8" :> 8 @@ "9" :> 9
Letters ==
    {"a", "b", "c", "d", "e", "f", "g", "h", "i", "j", "k", "l", "m",
     "n", "o", "p", "q", "r", "s", "t", "u", "v", "w", "x", "y", "z",
     "A", "B", "C", "D", "E", "F", "G", "H", "I", "J", "K", "L", "M",
     "N", "O", "P", "Q", "R", "S", "T", "U", "V", "W", "X", "Y", "Z", "_"}

is_digit(char) == char \in Digits
is_alpha(char) == char \in Letters
is_alphanumeric(char) == is_alpha(char) \/ is_digit(char)

KEYWORD_TOKEN_TYPES ==
    "and" :> "AND" @@ "class" :> "CLASS" @@ "else" :> "ELSE" @@
    "false" :> "FALSE" @@ "fun" :> "FUN" @@ "for" :> "FOR" @@ "if" :> "IF" @@
    "nil" :> "NIL" @@ "or" :> "OR" @@ "print" :> "PRINT" @@
    "return" :> "RETURN" @@ "super" :> "SUPER" @@ "this" :> "THIS" @@
    "true" :> "TRUE" @@ "var" :> "VAR" @@ "while" :> "WHILE"

Token(type, lexeme, literal, line_num) ==
    [type |-> type, lexeme |-> lexeme, literal |-> literal, line_num |-> line_num]

\* errors.report
report(out, line, where, message) ==
    Append(out, [line |-> line, where |-> where, message |-> message])

\* errors.error: prints, and touches no flag
error(out, line, message) == report(out, line, "", message)

\* the string made of the characters of a slice of the source
RECURSIVE Join(_)
Join(chars) == IF chars = <<>> THEN "" ELSE Head(chars) \o Join(Tail(chars))

\* float(text) for the texts _scan_number produces: digits, then possibly a
\* "." and digits.  The value keeps its whole part in n and the digits of
\* its fraction, without trailing zeros, in s.
RECURSIVE IntOf(_, _)
IntOf(chars, acc) ==
    IF chars = <<>> THEN acc
    ELSE IntOf(Tail(chars), acc * 10 + DigitValue[Head(chars)])

RECURSIVE StripZeros(_)
StripZeros(chars) ==
    IF chars # <<>> /\ chars[Len(chars)] = "0"
    THEN StripZeros(SubSeq(chars, 1, Len(chars) - 1))
    ELSE chars

float(chars) ==
    LET dots == {i \in 1..Len(chars) : chars[i] = "."}
        dot == IF dots = {} THEN Len(chars) + 1 ELSE CHOOSE i \in dots : TRUE
    IN  [t |-> "num", n |-> IntOf(SubSeq(chars, 1, dot - 1), 0),
         s |-> Join(StripZeros(SubSeq(chars, dot + 1, Len(chars))))]

\* Scanner.__init__
Scanner(source) ==
    [source |-> source, tokens |-> <<>>, start |-> 0, current |-> 0,
     line_num |-> 1, out |-> <<>>]

Scanner_is_at_end(sc) == sc.current >= Len(sc.source)
_advance(sc) == [sc EXCEPT !.current = @ + 1]
_peek(sc) == IF Scanner_is_at_end(sc) THEN NoChar ELSE sc.source[sc.current + 1]
_peek_next(sc) ==
    IF sc.current + 1 >= Len(sc.source) THEN NoChar ELSE sc.source[sc.current + 2]
\* Scanner._match, as the pair of its result and the scanner after it
_match(sc, expected) ==
    IF Scanner_is_at_end(sc) \/ sc.source[sc.current + 1] # expected
    THEN [v |-> FALSE, sc |-> sc]
    ELSE [v |-> TRUE, sc |-> _advance(sc)]

_add_token(sc, token_type, literal) ==
    [sc EXCEPT !.tokens =
        Append(@, Token(token_type,
                        Join(SubSeq(sc.source, sc.start + 1, sc.current)),
                        literal, sc.line_num))]

\* the while loops of _scan_token (comment), _scan_number and _scan_identifier
RECURSIVE SkipComment(_)
SkipComment(sc) ==
    IF _peek(sc) \notin {"\n", NoChar} THEN SkipComment(_advance(sc)) ELSE sc

RECURSIVE SkipDigits(_)
SkipDigits(sc) == IF is_digit(_peek(sc)) THEN SkipDigits(_advance(sc)) ELSE sc

RECURSIVE SkipAlphanumeric(_)
SkipAlphanumeric(sc) ==
    IF is_alphanumeric(_peek(sc)) THEN SkipAlphanumeric(_advance(sc)) ELSE sc

\* the while loop of _scan_string
RECURSIVE SkipString(_)
SkipString(sc) ==
    IF _peek(sc) # "\"" /\ ~Scanner_is_at_end(sc)
    THEN SkipString(_advance(IF _peek(sc) = "\n"
                             THEN [sc EXCEPT !.line_num = @ + 1] ELSE sc))
    ELSE sc

_scan_string(sc) ==
    LET s1 == SkipString(sc)
    IN  IF Scanner_is_at_end(s1)
        THEN [s1 EXCEPT !.out = error(@, s1.line_num, "Unterminated string")]
        ELSE LET s2 == _advance(s1)
             IN  _add_token(s2, "STRING",
                            Str(Join(SubSeq(s2.source, s2.start + 2, s2.current - 1))))

_scan_number(sc) ==
    LET s1 == SkipDigits(sc)
        s2 == IF _peek(s1) = "." /\ is_digit(_peek_next(s1))
              THEN SkipDigits(_advance(s1)) ELSE s1
    IN  _add_token(s2, "NUMBER", float(SubSeq(s2.source, s2.start + 1, s2.current)))

_scan_identifier(sc) ==
    LET s1 == SkipAlphanumeric(sc)
        text == Join(SubSeq(s1.source, s1.start + 1, s1.current))
    IN  _add_token(s1, IF text \in DOMAIN KEYWORD_TOKEN_TYPES
                       THEN KEYWORD_TOKEN_TYPES[text] ELSE "IDENTIFIER", Nil)

SingleCharacterTokens ==
    "(" :> "LEFT_PAREN" @@ ")" :> "RIGHT_PAREN" @@ "{" :> "LEFT_BRACE" @@
    "}" :> "RIGHT_BRACE" @@ "," :> "COMMA" @@ "." :> "DOT" @@ "-" :> "MINUS" @@
    "+" :> "PLUS" @@ ";" :> "SEMICOLON" @@ "*" :> "STAR"
OneOrTwoCharacterTokens ==
    "!" :> <<"BANG_EQUAL", "BANG">> @@ "=" :> <<"EQUAL_EQUAL", "EQUAL">> @@
    "<" :> <<"LESS_EQUAL", "LESS">> @@ ">" :> <<"GREATER_EQUAL", "GREATER">>

_scan_token(sc0) ==
    LET c == sc0.source[sc0.current + 1]
        sc == _advance(sc0)
    IN  CASE c \in DOMAIN SingleCharacterTokens ->
                 _add_token(sc, SingleCharacterTokens[c], Nil)
          [] c \in DOMAIN OneOrTwoCharacterTokens ->
                 LET m == _match(sc, "=")
                 IN  _add_token(m.sc, OneOrTwoCharacterTokens[c][IF m.v THEN 1 ELSE 2],
                                Nil)
          [] c = "/" ->
                 LET m == _match(sc, "/")
                 IN  IF m.v THEN SkipComment(m.sc) ELSE _add_token(sc, "SLASH", Nil)
          [] c \in {" ", "\r", "\t"} -> sc
          [] c = "\n" -> [sc EXCEPT !.line_num = @ + 1]
          [] c = "\"" -> _scan_string(sc)
          [] OTHER ->
                 IF is_digit(c) THEN _scan_number(sc)
                 ELSE IF is_alpha(c) THEN _scan_identifier(sc)
                 ELSE [sc EXCEPT !.out = error(@, sc.line_num,
                                               "Unexpected character " \o c \o ".")]

\* Scanner.scan: the state of the scanner when scan returns self._tokens
RECURSIVE scan(_)
scan(sc) ==
    IF ~Scanner_is_at_end(sc)
    THEN scan(_scan_token([sc EXCEPT !.start = sc.current]))
    ELSE sc

(***************************************************************************)
(* parser.py.  The parser holds the token list and _current; Lox.error,    *)
(* which it calls, changes the class attributes of Lox, carried in lox.    *)
(* Each parse function yields the parser after it, its value and the       *)
(* signal it ends with: ok, ParseError, or the IndexError of a read past   *)
(* the end of the token list.  AST nodes keep the lexeme of a name token   *)
(* and the type of an operator token.                                      *)
(***************************************************************************)
\* Lox.error (lox.py)
Lox_error(lox, token, message) ==
    [lox EXCEPT !.out = report(@, token.line_num,
                               IF token.type = "EOF" THEN "at the end"
                               ELSE "at '" \o token.lexeme \o "'",
                               message),
                !.had_error = TRUE]

\* Parser.__init__
\* calls is the history of the calls of parse_declaration that have
\* returned, each with the cursor at its entry and at its return
Parser(tokens, lox) ==
    [tokens |-> tokens, current |-> 0, lox |-> lox, calls |-> <<>>]

POk(p, v) == [p |-> p, v |-> v, sig |-> "ok"]
PRaise(p, sig) == [p |-> p, v |-> NoneNode, sig |-> sig]

\* Parser.peek, where the list has a token at _current
peek(p) == p.tokens[p.current + 1]
previous_token(p) == IF p.current > 0 THEN p.tokens[p.current] ELSE NoneNode

\* Parser.is_at_end: self.peek.type == EOF, an IndexError past the list
Parser_is_at_end(p) ==
    IF p.current >= Len(p.tokens) THEN PRaise(p, "IndexError")
    ELSE POk(p, peek(p).type = "EOF")

check(p, type) ==
    Then(Parser_is_at_end(p), LAMBDA e :
         IF e.v THEN POk(p, FALSE) ELSE POk(p, peek(p).type = type))

\* an advance without the test of is_at_end
advance_PastEnd(p) ==
    With([p EXCEPT !.current = @ + 1], LAMBDA p1 :
         POk(p1, previous_token(p1)))

advance(p) ==
    Then(Parser_is_at_end(p), LAMBDA e :
    With(IF e.v THEN p ELSE [p EXCEPT !.current = @ + 1], LAMBDA p1 :
         POk(p1, previous_token(p1))))

RECURSIVE match(_, _)
match(p, types) ==
    IF types = <<>> THEN POk(p, FALSE)
    ELSE Then(check(p, Head(types)), LAMBDA c :
              IF ~c.v THEN match(p, Tail(types))
              ELSE Then(advance(p), LAMBDA a : POk(a.p, TRUE)))

\* Parser.error, and the raise of the ParseError it returns
Parser_error(p, token, message) == [p EXCEPT !.lox = Lox_error(@, token, message)]
RaiseParseError(p, token, message) ==
    PRaise(Parser_error(p, token, message), "ParseError")

consume(p, type, error_message) ==
    Then(check(p, type), LAMBDA c :
         IF c.v THEN advance(p) ELSE RaiseParseError(p, peek(p), error_message))

new_statement_tokens ==
    {"CLASS", "FUN", "VAR", "FOR", "IF", "WHILE", "PRINT", "RETURN"}

\* the while loop of _synchronize
RECURSIVE SynchronizeLoop(_)
SynchronizeLoop(p) ==
    Then(Parser_is_at_end(p), LAMBDA e :
         IF e.v THEN POk(p, NoneNode)
         ELSE IF previous_token(p).type = "SEMICOLON" THEN POk(p, NoneNode)
         ELSE IF peek(p).type \in new_statement_tokens THEN POk(p, NoneNode)
         ELSE Then(advance(p), LAMBDA a : SynchronizeLoop(a.p)))

_synchronize(p) == Then(advance(p), LAMBDA a : SynchronizeLoop(a.p))

\* the operator types each binary level matches, in the order of its match
OperatorTypes(level) ==
    CASE level = "or" -> <<"OR">>
      [] level = "and" -> <<"AND">>
      [] level = "equality" -> <<"BANG_EQUAL", "EQUAL_EQUAL">>
      [] level = "comparison" -> <<"GREATER", "GREATER_EQUAL", "LESS", "LESS_EQUAL">>
      [] level = "term" -> <<"MINUS", "PLUS">>
      [] level = "factor" -> <<"STAR", "SLASH">>

\* the level whose function parses the operands of a level
NextLevel(level) ==
    CASE level = "or" -> "and"
      [] level = "and" -> "equality"
      [] level = "equality" -> "comparison"
      [] level = "comparison" -> "term"
      [] level = "term" -> "factor"
      [] level = "factor" -> "unary"

\* try ... except ParseError of parse_declaration
CatchParseError(r) ==
    IF r.sig # "ParseError" THEN r
    ELSE Then(_synchronize(r.p), LAMBDA s : POk(s.p, NoneNode))

\* a desugaring that runs the increment before the body
ForLoop_IncrementFirst(initializer, condition, increment, body) ==
    With(IF increment # NoneNode
         THEN Block(<<ExpressionStatement(increment), body>>) ELSE body,
         LAMBDA body1 :
    With(While(IF condition = NoneNode THEN Literal(Bool(TRUE)) ELSE condition, body1),
         LAMBDA body2 :
         IF initializer # NoneNode THEN Block(<<initializer, body2>>) ELSE body2))

\* the statement parse_for_statement builds from the clauses and the body
ForLoop(initializer, condition, increment, body) ==
    With(IF increment # NoneNode
         THEN Block(<<body, ExpressionStatement(increment)>>) ELSE body,
         LAMBDA body1 :
    With(While(IF condition = NoneNode THEN Literal(Bool(TRUE)) ELSE condition, body1),
         LAMBDA body2 :
         IF initializer # NoneNode THEN Block(<<initializer, body2>>) ELSE body2))

RECURSIVE parse_declaration(_), parse_var_declaration(_), parse_statement(_),
          parse_for_statement(_), parse_if_statement(_),
          parse_print_statement(_), parse_while_statement(_),
          parse_expression_statement(_), parse_block_statement(_),
          BlockLoop(_, _), parse_expression(_), parse_assignment(_),
          parse_or(_), BinaryLevel(_, _), OperatorLoop(_, _), parse_unary(_),
          parse_primary(_)

parse_declaration(p) ==
    With(Then(match(p, <<"VAR">>), LAMBDA m :
              CatchParseError(IF m.v THEN parse_var_declaration(m.p)
                              ELSE parse_statement(m.p))),
         LAMBDA r :
         [r EXCEPT !.p.calls = Append(@, [from |-> p.current,
                                          to |-> r.p.current])])

parse_var_declaration(p) ==
    Then(consume(p, "IDENTIFIER", "Expect a variable name."), LAMBDA name :
    Then(match(name.p, <<"EQUAL">>), LAMBDA m :
    Then(IF m.v THEN parse_expression(m.p) ELSE POk(m.p, NoneNode),
         LAMBDA initializer :
    Then(consume(initializer.p, "SEMICOLON",
                 "Expect ';' after a variable declaration."), LAMBDA c :
         POk(c.p, VariableDeclaration(name.v.lexeme, initializer.v))))))

\* the keyword statements of parse_statement, p being past the keyword
KeywordStatement(p, type) ==
    CASE type = "FOR" -> parse_for_statement(p)
      [] type = "IF" -> parse_if_statement(p)
      [] type = "PRINT" -> parse_print_statement(p)
      [] type = "WHILE" -> parse_while_statement(p)
      [] type = "LEFT_BRACE" ->
             Then(parse_block_statement(p), LAMBDA block : POk(block.p, Block(block.v)))

parse_statement(p) ==
    Then(match(p, <<"FOR", "IF", "PRINT", "WHILE", "LEFT_BRACE">>), LAMBDA m :
         IF m.v THEN KeywordStatement(m.p, previous_token(m.p).type)
         ELSE parse_expression_statement(p))

parse_for_statement(p) ==
    Then(consume(p, "LEFT_PAREN", "Expect '(' after 'for'."), LAMBDA paren :
    Then(match(paren.p, <<"SEMICOLON", "VAR">>), LAMBDA m :
    Then(IF ~m.v THEN parse_expression_statement(paren.p)
         ELSE IF previous_token(m.p).type = "SEMICOLON" THEN POk(m.p, NoneNode)
         ELSE parse_var_declaration(m.p), LAMBDA initializer :
    Then(check(initializer.p, "SEMICOLON"), LAMBDA c1 :
    Then(IF c1.v THEN POk(initializer.p, NoneNode)
         ELSE parse_expression(initializer.p), LAMBDA condition :
    Then(consume(condition.p, "SEMICOLON", "Expect ';' after loop condition."),
         LAMBDA semicolon :
    Then(check(semicolon.p, "RIGHT_PAREN"), LAMBDA c2 :
    Then(IF c2.v THEN POk(semicolon.p, NoneNode)
         ELSE parse_expression(semicolon.p), LAMBDA increment :
    Then(consume(increment.p, "RIGHT_PAREN", "Expect ')' after for clauses."),
         LAMBDA close :
    Then(parse_statement(close.p), LAMBDA body :
         POk(body.p, ForLoop(initializer.v, condition.v, increment.v, body.v))))))))))))

parse_if_statement(p) ==
    Then(consume(p, "LEFT_PAREN", "Expect '(' after 'if'."), LAMBDA open :
    Then(parse_expression(open.p), LAMBDA condition :
    Then(consume(condition.p, "RIGHT_PAREN", "Expect ')' after if condition."),
         LAMBDA close :
    Then(parse_statement(close.p), LAMBDA then_branch :
    Then(match(then_branch.p, <<"ELSE">>), LAMBDA else :
    Then(IF else.v THEN parse_statement(else.p) ELSE POk(else.p, NoneNode),
         LAMBDA else_branch :
         POk(else_branch.p, If(condition.v, then_branch.v, else_branch.v))))))))

parse_print_statement(p) ==
    Then(parse_expression(p), LAMBDA value :
    Then(consume(value.p, "SEMICOLON", "Expect ';' after a value."), LAMBDA c :
         POk(c.p, PrintStatement(value.v))))

parse_while_statement(p) ==
    Then(consume(p, "LEFT_PAREN", "Expect '(' after 'while'."), LAMBDA open :
    Then(parse_expression(open.p), LAMBDA condition :
    Then(consume(condition.p, "RIGHT_PAREN", "Expect ')' after while condition."),
         LAMBDA close :
    Then(parse_statement(close.p), LAMBDA body :
         POk(body.p, While(condition.v, body.v))))))

parse_expression_statement(p) ==
    Then(parse_expression(p), LAMBDA expr :
    Then(consume(expr.p, "SEMICOLON", "Expect ';' after an expression."), LAMBDA c :
         POk(c.p, ExpressionStatement(expr.v))))

\* the while loop of parse_block_statement
BlockLoop(p, statements) ==
    Then(check(p, "RIGHT_BRACE"), LAMBDA c :
    Then(Parser_is_at_end(p), LAMBDA e :
         IF c.v \/ e.v THEN POk(p, statements)
         ELSE Then(parse_declaration(p), LAMBDA d :
                   BlockLoop(d.p, Append(statements, d.v)))))

parse_block_statement(p) ==
    Then(BlockLoop(p, <<>>), LAMBDA b :
    Then(consume(b.p, "RIGHT_BRACE", "Expect '}' after block."), LAMBDA c :
         POk(c.p, b.v)))

parse_expression(p) == parse_assignment(p)

parse_assignment(p) ==
    Then(parse_or(p), LAMBDA expr :
    Then(match(expr.p, <<"EQUAL">>), LAMBDA m :
         IF ~m.v THEN POk(m.p, expr.v)
         ELSE Then(parse_assignment(m.p), LAMBDA value :
                   IF expr.v.k = "Variable"
                   THEN POk(value.p, Assign(expr.v.name, value.v))
                   ELSE POk(Parser_error(value.p, previous_token(m.p),
                                         "Invalid assignment target."),
                            expr.v))))

\* the while loop of parse_or .. parse_factor: expr is the result so far,
\* and the right operand is parsed by the function of the next level
OperatorLoop(expr, level) ==
    Then(expr, LAMBDA left :
    Then(match(left.p, OperatorTypes(level)), LAMBDA m :
         IF ~m.v THEN left
         ELSE Then(BinaryLevel(m.p, NextLevel(level)), LAMBDA right :
                   OperatorLoop(
                       POk(right.p,
                           IF level \in {"or", "and"}
                           THEN Logical(left.v, previous_token(m.p).type, right.v)
                           ELSE Binary(left.v, previous_token(m.p).type, right.v)),
                       level))))

\* parse_or .. parse_factor: an operand of the next level, then the loop
BinaryLevel(p, level) ==
    IF level = "unary" THEN parse_unary(p)
    ELSE OperatorLoop(BinaryLevel(p, NextLevel(level)), level)

parse_or(p) == BinaryLevel(p, "or")
parse_and(p) == BinaryLevel(p, "and")
parse_equality(p) == BinaryLevel(p, "equality")
parse_comparison(p) == BinaryLevel(p, "comparison")
parse_term(p) == BinaryLevel(p, "term")
parse_factor(p) == BinaryLevel(p, "factor")

parse_unary(p) ==
    Then(match(p, <<"BANG", "MINUS">>), LAMBDA m :
         IF ~m.v THEN parse_primary(p)
         ELSE Then(parse_unary(m.p), LAMBDA right :
                   POk(right.p, Unary(previous_token(m.p).type, right.v))))

\* the expression parse_primary builds from the token it has matched
Primary(p, token) ==
    CASE token.type = "TRUE" -> POk(p, Literal(Bool(TRUE)))
      [] token.type = "FALSE" -> POk(p, Literal(Bool(FALSE)))
      [] token.type = "NIL" -> POk(p, Literal(Nil))
      [] token.type \in {"NUMBER", "STRING"} -> POk(p, Literal(token.literal))
      [] token.type = "IDENTIFIER" -> POk(p, Variable(token.lexeme))
      [] token.type = "LEFT_PAREN" ->
             Then(parse_expression(p), LAMBDA expr :
             Then(consume(expr.p, "RIGHT_PAREN", "Expect ')' after expression."),
                  LAMBDA close :
                  POk(close.p, Grouping(expr.v))))

parse_primary(p) ==
    Then(match(p, <<"TRUE", "FALSE", "NIL", "NUMBER", "STRING", "IDENTIFIER",
                    "LEFT_PAREN">>), LAMBDA m :
         IF m.v THEN Primary(m.p, previous_token(m.p))
         ELSE RaiseParseError(p, peek(p), "Expect expression."))

\* Parser.parse
RECURSIVE ParseLoop(_, _)
ParseLoop(p, statements) ==
    Then(Parser_is_at_end(p), LAMBDA e :
         IF e.v THEN POk(p, statements)
         ELSE Then(parse_declaration(p), LAMBDA d :
                   ParseLoop(d.p, Append(statements, d.v))))

parse(p) == ParseLoop(p, <<>>)

(***************************************************************************)
(* lox.py and main.py.  The class attributes of Lox and the diagnostics    *)
(* printed so far are one record; a run ends with the signal it leaves     *)
(* Lox.run with.                                                           *)
(***************************************************************************)
Lox == [had_error |-> FALSE, had_runtime_error |-> FALSE, out |-> <<>>]

\* Lox.run.  Parser.parse ends with an exception or returns; when it
\* returns, line 37 reads parser.errors, an attribute Parser.__init__ never
\* sets, so the resolver and the interpreter (lines 42-55) are reached on no
\* path; evaluated tells whether line 51 or 53 was.
Lox_run(lox, source, repl_mode) ==
    With(scan(Scanner(source)), LAMBDA sc :
    With(parse(Parser(sc.tokens, [lox EXCEPT !.out = @ \o sc.out])), LAMBDA r :
         [lox |-> r.p.lox,
          sig |-> IF r.sig # "ok" THEN r.sig ELSE "AttributeError",
          evaluated |-> FALSE]))

\* the exit status of the process: the code of exit(), 0 when main returns,
\* 1 when an exception leaves main
ExitStatus(sig, code) ==
    IF sig = "SystemExit" THEN code ELSE IF sig = "ok" THEN 0 ELSE 1

\* Lox.run_file on a file holding source
run_file(lox, source) ==
    With(Lox_run(lox, source, FALSE), LAMBDA r :
         IF r.sig # "ok" THEN r @@ [code |-> 0]
         ELSE IF r.lox.had_error THEN [r EXCEPT !.sig = "SystemExit"] @@ [code |-> 65]
         ELSE IF r.lox.had_runtime_error
         THEN [r EXCEPT !.sig = "SystemExit"] @@ [code |-> 70]
         ELSE r @@ [code |-> 0])

(***************************************************************************)
(* The resolver (resolver.py).  A resolver is the record of its            *)
(* attributes, the interpreter it writes to included.  A scope, a dict in  *)
(* insertion order, is the sequence of its items [lexeme, var]; the type   *)
(* of the current function is the name of the FunctionType member.  The    *)
(* result of a step holds the resolver in its field st.                    *)
(***************************************************************************)
VariableInScope(token) ==
    [token |-> token, is_defined |-> FALSE, has_references |-> FALSE]

\* Resolver.__init__
Resolver(interpreter) ==
    [errors |-> <<>>, current_function |-> "NONE", interpreter |-> interpreter,
     scopes |-> <<>>]

\* the tokens the syntax tree of the model keeps as lexemes
NameToken(lexeme) == Token("IDENTIFIER", lexeme, Nil, 1)
ReturnKeyword == Token("RETURN", "return", Nil, 1)

\* self.errors.append((token, message))
ResolverError(r, token, message) ==
    [r EXCEPT !.errors = Append(@, [token |-> token, message |-> message])]

\* the position of lexeme in scope, 0 when lexeme is not in scope
ScopeIndex(scope, lexeme) ==
    IF \E i \in 1..Len(scope) : scope[i].lexeme = lexeme
    THEN CHOOSE i \in 1..Len(scope) : scope[i].lexeme = lexeme
    ELSE 0

_begin_scope(r) == [r EXCEPT !.scopes = Append(@, <<>>)]

_end_scope(r) ==
    With(SelectSeq(r.scopes[Len(r.scopes)],
                   LAMBDA item : ~item.var.has_references),
         LAMBDA unused :
         [r EXCEPT !.scopes = SubSeq(@, 1, Len(@) - 1),
                   !.errors = @ \o [i \in 1..Len(unused) |->
                                        [token |-> unused[i].var.token,
                                         message |-> "A variable is never used"]]])

_declare(r, name) ==
    IF r.scopes = <<>> THEN r
    ELSE With(ScopeIndex(r.scopes[Len(r.scopes)], name), LAMBDA i :
         With([lexeme |-> name, var |-> VariableInScope(NameToken(name))],
              LAMBDA item :
              IF i # 0
              THEN [ResolverError(r, NameToken(name),
                        "A variable with this name is already defined in this scope.")
                    EXCEPT !.scopes[Len(r.scopes)][i] = item]
              ELSE [r EXCEPT !.scopes[Len(r.scopes)] = Append(@, item)]))

_define(r, name) ==
    IF r.scopes = <<>> THEN r
    ELSE With(ScopeIndex(r.scopes[Len(r.scopes)], name), LAMBDA i :
              [r EXCEPT !.scopes[Len(r.scopes)][i].var.is_defined = TRUE])

\* the loop of _resolve_local from a distance on: every scope that holds
\* the name is handed to Interpreter.resolve and marked, the loop has no
\* break
RECURSIVE ResolveLocalFrom(_, _, _, _)
ResolveLocalFrom(r, expression, name, distance) ==
    IF distance >= Len(r.scopes) THEN Ok(r, Nil)
    ELSE With(Len(r.scopes) - distance, LAMBDA n :
         With(ScopeIndex(r.scopes[n], name), LAMBDA i :
              IF i = 0 THEN ResolveLocalFrom(r, expression, name, distance + 1)
              ELSE With(resolve(r.interpreter, expression, distance), LAMBDA s :
                        IF s.sig # "ok" THEN Raise(r, s.sig, s.msg)
                        ELSE ResolveLocalFrom(
                                 [r EXCEPT !.interpreter = s.st,
                                           !.scopes[n][i].var.has_references = TRUE],
                                 expression, name, distance + 1))))

_resolve_local(r, expression, name) == ResolveLocalFrom(r, expression, name, 0)

\* for param in expression.params: self._declare(param); self._define(param)
RECURSIVE DeclareParams(_, _)
DeclareParams(r, params) ==
    IF params = <<>> THEN r
    ELSE DeclareParams(_define(_declare(r, Head(params)), Head(params)),
                       Tail(params))

RECURSIVE _resolve(_, _), Resolver_resolve(_, _)

_resolve_function(r, expression, type) ==
    With(r.current_function, LAMBDA enclosing_function :
    Then(Resolver_resolve(
             DeclareParams([_begin_scope(r) EXCEPT !.current_function = type],
                           expression.params),
             expression.body),
         LAMBDA s :
         Ok([_end_scope(s.st) EXCEPT !.current_function = enclosing_function],
            Nil)))

\* Resolver._resolve, one case for each registered class; a node of any
\* other class (Class, Get, Set, This) reaches the base method
_resolve(r, node) ==
    CASE node.k = "Block" ->
             Then(Resolver_resolve(_begin_scope(r), node.statements), LAMBDA s :
                  Ok(_end_scope(s.st), Nil))
      [] node.k \in {"ExpressionStatement", "PrintStatement", "Grouping"} ->
             _resolve(r, node.expression)
      [] node.k = "If" ->
             Then(_resolve(r, node.condition), LAMBDA c :
             Then(_resolve(c.st, node.then_branch), LAMBDA t :
                  IF node.else_branch # NoneNode
                  THEN _resolve(t.st, node.else_branch) ELSE t))
      [] node.k = "Return" ->
             With(IF r.current_function = "NONE"
                  THEN ResolverError(r, ReturnKeyword,
                                     "Can't return from top-level code.")
                  ELSE r,
                  LAMBDA r1 :
                  IF node.expression # NoneNode THEN _resolve(r1, node.expression)
                  ELSE Ok(r1, Nil))
      [] node.k = "VariableDeclaration" ->
             Then(IF node.initializer # NoneNode
                  THEN _resolve(_declare(r, node.name), node.initializer)
                  ELSE Ok(_declare(r, node.name), Nil),
                  LAMBDA i : Ok(_define(i.st, node.name), Nil))
      [] node.k = "While" ->
             Then(_resolve(r, node.condition), LAMBDA c :
                  _resolve(c.st, node.body))
      [] node.k = "Assign" ->
             Then(_resolve(r, node.value), LAMBDA v :
                  _resolve_local(v.st, node, node.name))
      [] node.k \in {"Binary", "Logical"} ->
             Then(_resolve(r, node.left), LAMBDA l : _resolve(l.st, node.right))
      [] node.k = "Call" ->
             Then(_resolve(r, node.callee), LAMBDA c :
                  Resolver_resolve(c.st, node.arguments))
      [] node.k = "Literal" -> Ok(r, Nil)
      [] node.k = "Unary" -> _resolve(r, node.right)
      [] node.k = "Variable" ->
             With(IF r.scopes = <<>> THEN 0
                  ELSE ScopeIndex(r.scopes[Len(r.scopes)], node.name),
                  LAMBDA i :
                  _resolve_local(
                      IF i # 0 /\ ~r.scopes[Len(r.scopes)][i].var.is_defined
                      THEN ResolverError(r, NameToken(node.name),
                               "Can't read local variable in its own initializer.")
                      ELSE r,
                      node, node.name))
      [] node.k = "FunctionDeclaration" ->
             _resolve_function(IF node.name # NoName
                               THEN _define(_declare(r, node.name), node.name)
                               ELSE r,
                               node, "FUNCTION")
      [] OTHER -> Raise(r, "NotImplementedError", "")

\* Resolver.resolve
Resolver_resolve(r, statements) ==
    IF statements = <<>> THEN Ok(r, Nil)
    ELSE Then(_resolve(r, Head(statements)), LAMBDA s :
              Resolver_resolve(s.st, Tail(statements)))

\* Resolver.run
Resolver_run(r, statements) ==
    Then(Resolver_resolve(_begin_scope(r), statements), LAMBDA s :
         Ok(_end_scope(s.st), Nil))

(***************************************************************************)
(* The evaluator driven through its interface, as the repository's tests   *)
(* drive it: a fresh Interpreter, then calls of Interpreter.interpret on   *)
(* statement lists.  A Literal node may hold any value (the tests build    *)
(* Literal nodes by hand), so a program may refer to a value h that an     *)
(* earlier call left in globals.                                           *)
(***************************************************************************)
VARIABLES interp, steps, outcome, last, lox, proc, stage

vars == <<interp, steps, outcome, last, lox, proc, stage>>

\* Interpreter.__init__
Interpreter ==
    [envs |-> <<[outer |-> 0, values |-> ("clock" :> clock)]>>,
     fns |-> <<>>, classes |-> <<>>, insts |-> <<>>,
     environment |-> GlobalsId, locals |-> EmptyMap,
     output |-> <<>>, log |-> <<>>, depth |-> 0, cdepth |-> 0, now |-> 0]

PrintsOf(n) == FunctionDeclaration(NoName, <<>>, <<PrintStatement(Literal(Num(n)))>>)

CounterBody ==
    <<ExpressionStatement(Assign("i", Binary(Variable("i"), "PLUS", Literal(Num(1))))),
      PrintStatement(Variable("i"))>>

Declarations ==
    <<Class("A", <<FunctionDeclaration("init", <<>>, <<Return(Literal(Num(5)))>>),
                   FunctionDeclaration("m", <<>>, <<Return(Literal(Num(7)))>>)>>),
      Class("B", <<FunctionDeclaration("init", <<>>, <<Return(NoneNode)>>)>>),
      Class("C", <<FunctionDeclaration("init", <<>>,
                                       <<PrintStatement(Literal(Num(4)))>>)>>),
      Class("D", <<FunctionDeclaration("m", <<>>, <<>>)>>),
      ExpressionStatement(
          FunctionDeclaration("makeCounter", <<>>,
              <<VariableDeclaration("i", Literal(Num(0))),
                Return(FunctionDeclaration("count", <<>>, CounterBody))>>))>>

NumPrograms == 14

\* The programs the model runs; h is the value a Literal node refers to.
Program(p, h) ==
    CASE p = 1 -> <<Block(<<PrintStatement(Literal(Num(1))),
                            Block(<<PrintStatement(Literal(Num(2)))>>)>>)>>
      [] p = 2 -> <<Block(<<Block(<<ExpressionStatement(
                                       Binary(Literal(Num(1)), "PLUS",
                                              Literal(Str("a"))))>>),
                            PrintStatement(Literal(Num(3)))>>)>>
      [] p = 3 -> <<PrintStatement(
                      Call(FunctionDeclaration(NoName, <<>>,
                               <<Block(<<Block(<<Return(Literal(Num(5)))>>),
                                         PrintStatement(Literal(Num(9)))>>)>>),
                           <<>>))>>
      [] p = 4 -> <<Block(<<Return(NoneNode)>>)>>
      [] p = 5 -> <<Block(<<Block(<<PrintStatement(Variable("clock"))>>)>>)>>
      [] p = 6 -> Declarations
      [] p = 7 -> <<ExpressionStatement(
                      Call(FunctionDeclaration(NoName, <<"p">>,
                                               <<PrintStatement(Literal(Num(1)))>>),
                           <<Call(PrintsOf(7), <<>>), Call(PrintsOf(8), <<>>)>>))>>
      [] p = 8 -> <<ExpressionStatement(
                      Call(FunctionDeclaration(NoName, <<"p", "q">>,
                                               <<PrintStatement(Literal(Num(1)))>>),
                           <<Call(PrintsOf(7), <<>>), Call(PrintsOf(8), <<>>)>>))>>
      [] p = 9 -> <<VariableDeclaration("c", Call(Literal(h), <<>>))>>
      [] p = 10 -> <<ExpressionStatement(Call(Literal(h), <<>>))>>
      [] p = 11 -> <<VariableDeclaration("g", Get(Literal(h), "m"))>>
      [] p = 12 -> <<ExpressionStatement(Set(Literal(h), "m", Literal(Num(3)))),
                     VariableDeclaration("g", Get(Literal(h), "m"))>>
      [] p = 13 -> <<VariableDeclaration("g", Call(Get(Literal(h), "init"), <<>>))>>
      [] OTHER -> <<VariableDeclaration("g", Call(Get(Literal(h), "m"), <<>>))>>

\* the values of globals
Globals(i) == i.envs[GlobalsId].values

\* The values a Literal of program p may hold, taken from globals: the
\* callables for a declaration from a call, the functions for a call
\* statement, every value for a property read, the instances otherwise.
Holes(p) ==
    LET globals == interp.envs[GlobalsId].values
        held == {globals[name] : name \in DOMAIN globals}
    IN  IF p <= 8 THEN {Nil}
        ELSE IF p = 9 THEN {v \in held : IsCallable(v)}
        ELSE IF p = 10 THEN {v \in held : v.t = "fn"}
        ELSE IF p = 11 THEN held
        ELSE {v \in held : IsInstance(v)}

\* the process before main is called, and the scanner's driver before a
\* source is chosen
NotStarted ==
    [pc |-> "start", args |-> 0, source |-> <<>>, ran |-> FALSE, sig |-> "ok",
     exit |-> 0, usage |-> FALSE, evaluated |-> FALSE, lines |-> 0]
NoSource == [pc |-> "source", source |-> <<>>, tokens |-> <<>>, current |-> 0,
             sig |-> "ok", statements |-> <<>>, parser |-> NoneNode,
             calls |-> <<>>]

Init ==
    /\ interp = Interpreter
    /\ steps = 0
    /\ outcome = [sig |-> "ok", v |-> Nil]
    /\ last = [p |-> 0, h |-> Nil]
    /\ lox = Lox
    /\ proc = NotStarted
    /\ stage = NoSource

\* One call interpreter.interpret(statements) by the driver, which catches
\* whatever the call raises.
Interpret(p, h) ==
    LET r == interpret([interp EXCEPT !.log = <<>>, !.now = steps], Program(p, h))
    IN  /\ steps < MaxSteps
        /\ interp' = r.st
        /\ steps' = steps + 1
        /\ outcome' = [sig |-> r.sig, v |-> r.v]
        /\ last' = [p |-> p, h |-> h]
        /\ UNCHANGED <<lox, proc, stage>>

Next == \E p \in 1..NumPrograms : \E h \in Holes(p) : Interpret(p, h)

Spec == Init /\ [][Next]_vars

(***************************************************************************)
(* The evaluator applied to single expressions and to the statement lists  *)
(* of the prompt, as the repository's tests apply Interpreter.evaluate to  *)
(* syntax trees built by hand.  Three calls of interpret first put a       *)
(* class, a function, an instance and a bound method into globals, so that *)
(* every case of value can be an operand.                                  *)
(***************************************************************************)
\* three calls prepare the interpreter; the fourth is the one observed
Prepared == steps = 3

\* the program of the next preparing call and the value in its hole
Preparation ==
    IF steps = 0 THEN [p |-> 6, h |-> Nil]
    ELSE IF steps = 1 THEN [p |-> 9, h |-> Globals(interp)["A"]]
    ELSE [p |-> 11, h |-> Globals(interp)["c"]]

Prepare == ~Prepared /\ Interpret(Preparation.p, Preparation.h)

\* The operands: a value of every case, those of the classes, functions and
\* instances taken from globals.
Constants ==
    {Nil, Bool(TRUE), Bool(FALSE), Num(0), Num(1), Str(""), Str("a"), Str("1")}
Operands == Constants \cup {Globals(interp)[name] : name \in DOMAIN Globals(interp)}

\* a call that prints n and returns v
Effect(n, v) ==
    Call(FunctionDeclaration(NoName, <<>>,
                             <<PrintStatement(Literal(Num(n))), Return(Literal(v))>>),
         <<>>)

\* a statement nested in a block, in a branch of an if or in the body of a
\* loop that would go on for ever
Wrappers == {"None", "Block", "Then", "Else", "While"}
Wrapped(w, statement) ==
    CASE w = "Block" -> Block(<<statement, PrintStatement(Literal(Num(6)))>>)
      [] w = "Then" -> If(Literal(Bool(TRUE)), statement, NoneNode)
      [] w = "Else" -> If(Literal(Nil), PrintStatement(Literal(Num(6))), statement)
      [] w = "While" ->
             While(Literal(Bool(TRUE)),
                   Block(<<statement, PrintStatement(Literal(Num(6)))>>))
      [] OTHER -> statement

\* a call of fun () { print 1; ...return e;... print 9; }, the return nested
\* in w2 nested in w1
ReturnCall(w1, w2, e) ==
    Call(FunctionDeclaration(NoName, <<>>,
             <<PrintStatement(Literal(Num(1))),
               Wrapped(w1, Wrapped(w2, Return(e))),
               PrintStatement(Literal(Num(9)))>>),
         <<>>)

\* a call of a function that prints the value of such a call, prints 2 and
\* returns 3 from within w1
NestedReturnCall(w1, w2, e) ==
    Call(FunctionDeclaration(NoName, <<>>,
             <<PrintStatement(ReturnCall(w1, w2, e)),
               PrintStatement(Literal(Num(2))),
               Wrapped(w1, Return(Literal(Num(3)))),
               PrintStatement(Literal(Num(4)))>>),
         <<>>)

Returned == {NoneNode, Literal(Num(5)), Literal(Str("a"))}

ReturnCalls ==
    {ReturnCall(w1, w2, e) : w1 \in Wrappers, w2 \in Wrappers, e \in Returned}
    \cup {NestedReturnCall(w1, w2, e) :
              w1 \in Wrappers, w2 \in Wrappers, e \in Returned}

Expressions ==
    {Binary(Literal(a), op, Literal(b)) :
         a \in Operands, b \in Operands, op \in {"EQUAL_EQUAL", "BANG_EQUAL", "PLUS"}}
    \cup {Unary(op, Literal(a)) : a \in Operands, op \in {"MINUS", "BANG"}}
    \cup {Binary(Effect(7, a), "PLUS", Effect(8, b)) :
              a \in {Nil, Num(1), Str("a")}, b \in {Nil, Num(1), Str("a")}}
    \cup {Logical(Effect(7, a), op, Effect(8, Str("b"))) :
              a \in Operands, op \in {"OR", "AND"}}
    \cup ReturnCalls

\* The statement lists given to interpret_repl: one expression statement,
\* one print statement, two expression statements, and none.
ReplLines ==
    {<<ExpressionStatement(Literal(a))>> : a \in Operands}
    \cup {<<PrintStatement(Literal(a))>> : a \in Operands}
    \cup {<<ExpressionStatement(Literal(a)), ExpressionStatement(Literal(a))>> :
              a \in Constants}
    \cup {<<>>}

\* interpreter.evaluate(expression)
Evaluate(expression) ==
    LET r == evaluate([interp EXCEPT !.log = <<>>], expression)
    IN  /\ Prepared
        /\ interp' = r.st
        /\ steps' = steps + 1
        /\ outcome' = [sig |-> r.sig, v |-> r.v, msg |-> r.msg]
        /\ last' = [p |-> 0, h |-> Nil, expression |-> expression,
                    statements |-> <<>>, repl |-> FALSE]
        /\ UNCHANGED <<lox, proc, stage>>

\* interpreter.interpret_repl(statements)
InterpretRepl(statements) ==
    LET r == interpret_repl([interp EXCEPT !.log = <<>>], statements)
    IN  /\ Prepared
        /\ interp' = r.st
        /\ steps' = steps + 1
        /\ outcome' = [sig |-> r.sig, v |-> r.v, msg |-> r.msg]
        /\ last' = [p |-> 0, h |-> Nil, expression |-> NoneNode,
                    statements |-> statements, repl |-> TRUE]
        /\ UNCHANGED <<lox, proc, stage>>

NextEval ==
    \/ Prepare
    \/ \E expression \in Expressions : Evaluate(expression)
    \/ \E statements \in ReplLines : InterpretRepl(statements)

SpecEval == Init /\ [][NextEval]_vars

(***************************************************************************)
(* The scanner and the parser driven as Lox.run drives them (lox.py 33-36):*)
(* Scanner(source).scan(), then Parser(tokens).parse().  A source is a     *)
(* concatenation of at most MaxFragments fragments.                        *)
(***************************************************************************)
MaxFragments == 3

Fragments ==
    {<<"p", "r", "i", "n", "t", " ">>, <<"v", "a", "r", " ">>, <<"a">>,
     <<"1">>, <<".">>, <<";">>, <<"=">>, <<"+">>, <<"\"", "a", "\"">>,
     <<"\"">>, <<"@">>, <<"\n">>, <<"/", "/">>}

RECURSIVE SourcesOf(_)
SourcesOf(n) ==
    IF n = 0 THEN {<<>>}
    ELSE LET S == SourcesOf(n - 1)
         IN  S \cup {s \o f : s \in S, f \in Fragments}

Sources == SourcesOf(MaxFragments)

InitScan ==
    /\ interp = Interpreter
    /\ steps = 0
    /\ outcome = [sig |-> "ok", v |-> Nil]
    /\ last = [p |-> 0, h |-> Nil]
    /\ lox = Lox
    /\ proc = NotStarted
    /\ \E source \in Sources : stage = [NoSource EXCEPT !.source = source]

\* tokens = Scanner(source).scan()
Scan ==
    LET sc == scan(Scanner(stage.source))
    IN  /\ stage.pc = "source"
        /\ stage' = [stage EXCEPT !.pc = "scanned", !.tokens = sc.tokens,
                                  !.current = sc.current]
        /\ lox' = [lox EXCEPT !.out = @ \o sc.out]
        /\ UNCHANGED <<interp, steps, outcome, last, proc>>

\* the attributes of a Parser object (parser.py 13-15): _tokens and _current
ParserAttributes(p) == [tokens |-> p.tokens, current |-> p.current]

\* statements = Parser(tokens).parse(); the driver keeps the returned list,
\* the parser object and the history of the calls of parse_declaration
Parse ==
    LET r == parse(Parser(stage.tokens, lox))
    IN  /\ stage.pc = "scanned"
        /\ stage' = [stage EXCEPT !.pc = "parsed", !.sig = r.sig,
                                  !.statements = r.v,
                                  !.parser = ParserAttributes(r.p),
                                  !.calls = r.p.calls]
        /\ lox' = r.p.lox
        /\ UNCHANGED <<interp, steps, outcome, last, proc>>

NextScan == Scan \/ Parse

SpecScan == InitScan /\ [][NextScan]_vars

(***************************************************************************)
(* The parser driven on token lists that end with an EOF token, the lists  *)
(* Parser.is_at_end (parser.py 281-283) is written for: the tokens of a    *)
(* source followed by Token(EOF).  The sources are for statements in every *)
(* combination of clauses, and sequences of at most MaxStatements          *)
(* statement texts, well formed and not.                                   *)
(***************************************************************************)
MaxStatements == 2

ForInitializers ==
    {[text |-> <<";">>, node |-> NoneNode],
     [text |-> <<"v", "a", "r", " ", "a", "=", "1", ";">>,
      node |-> VariableDeclaration("a", Literal(Num(1)))],
     [text |-> <<"a", ";">>, node |-> ExpressionStatement(Variable("a"))]}

ForConditions ==
    {[text |-> <<>>, node |-> NoneNode],
     [text |-> <<"a">>, node |-> Variable("a")]}

ForIncrements ==
    {[text |-> <<>>, node |-> NoneNode],
     [text |-> <<"a", "=", "1">>, node |-> Assign("a", Literal(Num(1)))]}

ForBodies ==
    {[text |-> <<"p", "r", "i", "n", "t", " ", "a", ";">>,
      node |-> PrintStatement(Variable("a"))],
     [text |-> <<"{", "}">>, node |-> Block(<<>>)],
     [text |-> <<"a", ";">>, node |-> ExpressionStatement(Variable("a"))]}

ForText(initializer, condition, increment, body) ==
    <<"f", "o", "r", "(">> \o initializer.text \o condition.text \o <<";">>
        \o increment.text \o <<")">> \o body.text

ForSources ==
    {ForText(i, c, n, b) : i \in ForInitializers, c \in ForConditions,
                           n \in ForIncrements, b \in ForBodies}

StatementTexts ==
    {<<"a", "=", "1", ";">>, <<"1", "=", "2", ";">>,
     <<"a", ".", "b", "=", "1", ";">>, <<"a", "=", "b", "=", "1", ";">>,
     <<"(", "a", ")", "=", "1", ";">>, <<"+", ";">>,
     <<"p", "r", "i", "n", "t", " ", "1">>, <<"v", "a", "r", " ", "a", ";">>,
     <<"{", "a", ";">>, <<"}">>, <<"p", "r", "i", "n", "t", " ", "a", ";">>}

RECURSIVE StatementSources(_)
StatementSources(n) ==
    IF n = 0 THEN {<<>>}
    ELSE LET S == StatementSources(n - 1)
         IN  S \cup {s \o t : s \in S, t \in StatementTexts}

ParseSources == ForSources \cup StatementSources(MaxStatements)

\* the tokens of a source, ended by the EOF token the parser stops at
TokensWithEOF(source) ==
    With(scan(Scanner(source)), LAMBDA sc :
         Append(sc.tokens, Token("EOF", "", Nil, sc.line_num)))

InitParse ==
    /\ interp = Interpreter
    /\ steps = 0
    /\ outcome = [sig |-> "ok", v |-> Nil]
    /\ last = [p |-> 0, h |-> Nil]
    /\ lox = Lox
    /\ proc = NotStarted
    /\ \E source \in ParseSources :
           stage = [NoSource EXCEPT !.pc = "scanned", !.source = source,
                                    !.tokens = TokensWithEOF(source)]

NextParse == Parse

SpecParse == InitParse /\ [][NextParse]_vars

(***************************************************************************)
(* The resolver and the evaluator driven as Lox.run drives them once a     *)
(* statement list is parsed (lox.py 42-55): Resolver(interpreter).run,     *)
(* the errors of the resolver reported, and the statements interpreted     *)
(* when no error was reported.  A program is a sequence of at most         *)
(* MaxStatements statements.                                               *)
(***************************************************************************)
\* { var a = 1; { var a = 2; print a; } print a; }
ShadowProgram ==
    <<Block(<<VariableDeclaration("a", Literal(Num(1))),
              Block(<<VariableDeclaration("a", Literal(Num(2))),
                      PrintStatement(Variable("a"))>>),
              PrintStatement(Variable("a"))>>)>>

\* { var a = 1; { a = 2; } print a; }
AssignProgram ==
    <<Block(<<VariableDeclaration("a", Literal(Num(1))),
              Block(<<ExpressionStatement(Assign("a", Literal(Num(2))))>>),
              PrintStatement(Variable("a"))>>)>>

\* { var a = 1; { print a; var a = 2; print a; } }: two uses of a that are
\* equal as dataclasses and bind to different declarations
TwoUsesProgram ==
    <<Block(<<VariableDeclaration("a", Literal(Num(1))),
              Block(<<PrintStatement(Variable("a")),
                      VariableDeclaration("a", Literal(Num(2))),
                      PrintStatement(Variable("a"))>>)>>)>>

\* { var a = 1; }
UnusedProgram == <<Block(<<VariableDeclaration("a", Literal(Num(1)))>>)>>

ResolveStatements ==
    {VariableDeclaration("a", Literal(Num(1))),
     VariableDeclaration("b", NoneNode),
     PrintStatement(Variable("a")),
     PrintStatement(Variable("b")),
     PrintStatement(Literal(Num(1))),
     PrintStatement(Grouping(Literal(Num(1)))),
     PrintStatement(This),
     ExpressionStatement(Assign("a", Literal(Num(2)))),
     Block(<<VariableDeclaration("a", Variable("a"))>>),
     Block(<<VariableDeclaration("a", NoneNode),
             VariableDeclaration("a", NoneNode)>>),
     Block(<<PrintStatement(Literal(Num(3)))>>),
     Return(NoneNode),
     ExpressionStatement(
         FunctionDeclaration("f", <<"a">>, <<Return(Literal(Num(1)))>>)),
     If(Literal(Bool(TRUE)), PrintStatement(Literal(Num(4))), NoneNode),
     ShadowProgram[1], AssignProgram[1], TwoUsesProgram[1], UnusedProgram[1]}

RECURSIVE ProgramsOf(_)
ProgramsOf(n) ==
    IF n = 0 THEN {<<>>}
    ELSE LET S == ProgramsOf(n - 1)
         IN  S \cup {Append(s, t) : s \in S, t \in ResolveStatements}

\* for error in resolver.errors: Lox.error(*error)
RECURSIVE ReportErrors(_, _)
ReportErrors(l, errors) ==
    IF errors = <<>> THEN l
    ELSE ReportErrors(Lox_error(l, Head(errors).token, Head(errors).message),
                      Tail(errors))

\* resolver = Resolver(self._interpreter); resolver.run(statements); the
\* errors reported
Resolve(statements) ==
    LET r == Resolver_run(Resolver(interp), statements)
    IN  /\ steps = 0
        /\ steps' = 1
        /\ interp' = r.st.interpreter
        /\ outcome' = [sig |-> r.sig, v |-> Nil, msg |-> r.msg]
        /\ last' = [p |-> 0, h |-> Nil, statements |-> statements,
                    errors |-> r.st.errors]
        /\ lox' = IF r.sig = "ok" THEN ReportErrors(lox, r.st.errors) ELSE lox
        /\ UNCHANGED <<proc, stage>>

\* if Lox._had_error: return; self._interpreter.interpret(statements)
InterpretResolved ==
    /\ steps = 1
    /\ outcome.sig = "ok"
    /\ ~lox.had_error
    /\ LET r == interpret([interp EXCEPT !.log = <<>>, !.now = steps],
                          last.statements)
       IN  /\ interp' = r.st
           /\ outcome' = [sig |-> r.sig, v |-> r.v, msg |-> r.msg]
    /\ steps' = 2
    /\ UNCHANGED <<last, lox, proc, stage>>

NextResolve ==
    \/ \E statements \in ProgramsOf(MaxStatements) : Resolve(statements)
    \/ InterpretResolved

SpecResolve == Init /\ [][NextResolve]_vars

(***************************************************************************)
(* The process: main.py called with a number of arguments; in file mode    *)
(* the file holds a source, in interactive mode input() yields lines.      *)
(***************************************************************************)
MaxArgs == 2
MaxLines == 2

\* main, len(args) > 1
MainUsage(args) ==
    /\ proc.pc = "start"
    /\ args > 1
    /\ proc' = [proc EXCEPT !.pc = "exited", !.args = args, !.usage = TRUE,
                            !.sig = "SystemExit", !.exit = ExitStatus("SystemExit", 64)]
    /\ UNCHANGED <<interp, steps, outcome, last, lox, stage>>

\* main, len(args) == 1: lox.run_file(args[0]), the file holding source;
\* the class attributes of Lox and the process after it
main_file(l, pr, source) ==
    With(run_file(l, source), LAMBDA r :
         [lox |-> r.lox,
          proc |-> [pr EXCEPT !.pc = "exited", !.args = 1, !.source = source,
                              !.ran = TRUE, !.sig = r.sig,
                              !.exit = ExitStatus(r.sig, r.code),
                              !.evaluated = r.evaluated]])

MainFile(source) ==
    LET after == main_file(lox, proc, source)
    IN  /\ proc.pc = "start"
        /\ proc' = after.proc
        /\ lox' = after.lox
        /\ UNCHANGED <<interp, steps, outcome, last, stage>>

\* main, no argument: lox.run_prompt() is entered
MainPrompt ==
    /\ proc.pc = "start"
    /\ proc' = [proc EXCEPT !.pc = "prompt"]
    /\ UNCHANGED <<interp, steps, outcome, last, lox, stage>>

\* one turn of the loop of Lox.run_prompt, input() giving line; the class
\* attributes of Lox and the process after it
run_prompt(l, pr, line) ==
    IF line = <<>>
    THEN [lox |-> l,
          proc |-> [pr EXCEPT !.pc = "exited", !.source = line,
                              !.exit = ExitStatus("ok", 0)]]
    ELSE With(Lox_run(l, line, TRUE), LAMBDA r :
              IF r.sig # "ok"
              THEN [lox |-> r.lox,
                    proc |-> [pr EXCEPT !.pc = "exited", !.source = line,
                                        !.ran = TRUE, !.sig = r.sig,
                                        !.exit = ExitStatus(r.sig, 0),
                                        !.evaluated = r.evaluated]]
              ELSE [lox |-> [r.lox EXCEPT !.had_error = FALSE],
                    proc |-> [pr EXCEPT !.source = line, !.ran = TRUE,
                                        !.lines = @ + 1,
                                        !.evaluated = r.evaluated]])

PromptLine(line) ==
    LET after == run_prompt(lox, proc, line)
    IN  /\ proc.pc = "prompt"
        /\ proc.lines < MaxLines
        /\ proc' = after.proc
        /\ lox' = after.lox
        /\ UNCHANGED <<interp, steps, outcome, last, stage>>

NextHost ==
    \/ \E args \in 0..MaxArgs : MainUsage(args)
    \/ \E source \in Sources : MainFile(source)
    \/ MainPrompt
    \/ \E line \in Sources : PromptLine(line)

SpecHost == Init /\ [][NextHost]_vars

(***************************************************************************)
(* Properties of the evaluator.                                            *)
(***************************************************************************)
Printed == SubSeq(interp'.output, Len(interp.output) + 1, Len(interp'.output))
HasMethod(v, name) ==
    IsInstance(v) /\ name \in DOMAIN interp.classes[interp.insts[v.n].class].methods
HasField(v, name) == IsInstance(v) /\ name \in DOMAIN interp.insts[v.n].fields

\* C1: whenever a block finishes -- normally, by a return signal or by an
\* error -- interpreter.environment is the environment that was current
\* before the block was entered, at every nesting depth; so after a call of
\* interpret made at top level the current environment is globals again.
C1_BlockRestoresEnvironment ==
    /\ interp.environment = GlobalsId
    /\ \A i \in 1..Len(interp.log) :
           interp.log[i].e = "block" => interp.log[i].b = interp.log[i].a

\* A return signal has left a block nested in another block of a function body.
C1_Witness ==
    \E i \in 1..Len(interp.log) :
        /\ interp.log[i].e = "block"
        /\ interp.log[i].s = "return"
        /\ interp.log[i].d >= 3
        /\ interp.log[i].a # GlobalsId

IsCounter(v) == v.t = "fn" /\ interp.fns[v.n].declaration.name = "count"

C2_Step ==
    /\ \A i \in 1..Len(interp'.log) :
           interp'.log[i].e = "call" =>
               /\ interp'.log[i].b > Len(interp.envs)
               /\ interp'.envs[interp'.log[i].b].outer
                      = interp'.fns[interp'.log[i].a].closure
    /\ (last'.p = 10 /\ IsCounter(last'.h)) =>
           LET E == interp.fns[last'.h.n].closure
               before == interp.envs[E].values["i"].n
           IN  /\ outcome'.sig = "ok"
               /\ interp'.envs[E].values["i"] = Num(before + 1)
               /\ Printed = <<ToString(before + 1)>>

\* C2: every call of a function runs in a fresh environment whose parent is
\* the function's closure itself, so each call of the counter closure reads
\* the value of i left by the call before it, adds one and prints it
\* (1, then 2, ...).
C2_ClosuresShare == [][C2_Step]_vars

ArgumentsEvaluatedBefore(log, i) ==
    \/ log[i].a = 0
    \/ /\ i > 1
       /\ log[i - 1].e = "arg"
       /\ log[i - 1].a = log[i].a
       /\ log[i - 1].d = log[i].d + 1

\* C3: when a call is refused for its number of arguments, its arguments
\* have been evaluated, the last of them just before the check.
C3_ArgumentsBeforeArityCheck ==
    \A i \in 1..Len(interp.log) :
        interp.log[i].e = "arity" => ArgumentsEvaluatedBefore(interp.log, i)

ReturnedValue(f) ==
    LET body == interp.fns[f].declaration.body
    IN  IF Len(body) = 0 \/ body[1].expression.k = "None" THEN Nil
        ELSE body[1].expression.value

C4_Step ==
    /\ (last'.p = 9 /\ last'.h.t = "class") =>
           /\ outcome'.sig = "ok"
           /\ Len(interp'.insts) = Len(interp.insts) + 1
           /\ Globals(interp')["c"] = InstanceValue(Len(interp'.insts))
           /\ interp'.insts[Len(interp'.insts)].class = last'.h.n
    /\ (last'.p = 13 /\ HasMethod(last'.h, "init") /\ ~HasField(last'.h, "init")) =>
           /\ outcome'.sig = "ok"
           /\ Globals(interp')["g"] = last'.h
    /\ (last'.p = 14 /\ HasMethod(last'.h, "m") /\ ~HasField(last'.h, "m")) =>
           /\ outcome'.sig = "ok"
           /\ Globals(interp')["g"]
                  = ReturnedValue(interp.classes[interp.insts[last'.h.n].class].methods["m"])

\* C4: calling a class yields the instance it has just created; calling an
\* initializer obtained from an instance yields that instance, whether the
\* body ends normally, with a bare return or with return of a value; calling
\* another method yields the value it returns, or nil when its body ends.
C4_InitializerYieldsThis == [][C4_Step]_vars

\* init of class A, which ends with return 5, was called on an instance and
\* yielded the instance.
C4_Witness ==
    /\ last.p = 13
    /\ IsInstance(last.h)
    /\ interp.classes[interp.insts[last.h.n].class].name = "A"
    /\ outcome.sig = "ok"
    /\ Globals(interp)["g"] = last.h

C5_Step ==
    /\ (last'.p = 11 /\ ~IsInstance(last'.h)) =>
           /\ outcome'.sig = "runtime"
           /\ Globals(interp') = Globals(interp)
    /\ (last'.p = 11 /\ HasField(last'.h, "m")) =>
           /\ outcome'.sig = "ok"
           /\ Globals(interp')["g"] = interp.insts[last'.h.n].fields["m"]
           /\ interp'.fns = interp.fns
    /\ (last'.p = 11 /\ ~HasField(last'.h, "m") /\ HasMethod(last'.h, "m")) =>
           LET f == interp.classes[interp.insts[last'.h.n].class].methods["m"]
               b == Len(interp.fns) + 1
               e == Len(interp.envs) + 1
           IN  /\ outcome'.sig = "ok"
               /\ Globals(interp')["g"] = FunctionValue(b)
               /\ Len(interp'.fns) = b
               /\ interp'.fns[b] = [interp.fns[f] EXCEPT !.closure = e]
               /\ Len(interp'.envs) = e
               /\ interp'.envs[e] = [outer |-> interp.fns[f].closure,
                                     values |-> ("this" :> last'.h)]
               /\ interp'.classes = interp.classes
               /\ interp'.fns[f] = interp.fns[f]
    /\ (last'.p = 11 /\ IsInstance(last'.h) /\ ~HasField(last'.h, "m")
            /\ ~HasMethod(last'.h, "m")) =>
           /\ outcome'.sig = "runtime"
           /\ Globals(interp') = Globals(interp)
    /\ last'.p = 12 =>
           /\ outcome'.sig = "ok"
           /\ Globals(interp')["g"] = Num(3)
           /\ interp'.fns = interp.fns

\* C5: reading property m of an instance gives the field m when the instance
\* has one, also when its class has a method m; otherwise, when the class has
\* a method m, a new function with the declaration of the method whose
\* closure is a new environment with parent the closure of the method and
\* the single binding this = the instance, the class and its method being
\* left as they were; otherwise a runtime error.  Reading a property of a
\* value that is not an instance is a runtime error.
C5_GetOnInstance == [][C5_Step]_vars

\* A method was read from an instance that has no field of its name.
C5_Witness ==
    /\ last.p = 11
    /\ IsInstance(last.h)
    /\ outcome.sig = "ok"
    /\ "g" \in DOMAIN Globals(interp)
    /\ Globals(interp)["g"].t = "fn"
    /\ interp.envs[interp.fns[Globals(interp)["g"].n].closure].values
           = ("this" :> last.h)

\* the step is a call of evaluate or interpret_repl on a prepared interpreter
Applied == Prepared /\ steps' = steps + 1

\* C11: interpret_repl given exactly one expression statement prints the
\* value of the expression as the print statement does (nil, true, false, a
\* whole number without .0); given any other statement list it does what
\* interpret does and prints nothing more.
C11_ReplPrintsStringified ==
    [][(Applied /\ last'.repl) =>
          IF Len(last'.statements) = 1
             /\ last'.statements[1].k = "ExpressionStatement"
          THEN /\ outcome'.sig = "ok"
               /\ Printed = <<_stringify(interp, last'.statements[1].expression.value)>>
          ELSE interp' = interpret([interp EXCEPT !.log = <<>>],
                                   last'.statements).st]_vars

\* the operation is operator op applied to two literal operands
IsBinaryOf(expression, ops) ==
    /\ expression.k = "Binary"
    /\ expression.operator \in ops
    /\ expression.left.k = "Literal"
    /\ expression.right.k = "Literal"

\* equality of Lox values: the same case of value and equal within it
LoxEqual(a, b) == a.t = b.t /\ a.n = b.n /\ a.s = b.s

\* C12: a == b is true exactly when a and b are of the same case of value
\* and equal within it, false for values of different cases (true == 1,
\* false == 0), and a != b is its negation.
C12_EqualityWithinCases ==
    [][(Applied /\ ~last'.repl
           /\ IsBinaryOf(last'.expression, {"EQUAL_EQUAL", "BANG_EQUAL"})) =>
          LET e == last'.expression
              equal == LoxEqual(e.left.value, e.right.value)
          IN  /\ outcome'.sig = "ok"
              /\ outcome'.v = Bool(IF e.operator = "EQUAL_EQUAL" THEN equal
                                   ELSE ~equal)]_vars

\* C13: -x is the negation of x for every number x and the runtime error
\* "Operand must be a number." for every other value; !x is the negation of
\* the truthiness of x, only nil and false being falsy.
C13_UnaryOperands ==
    [][(Applied /\ ~last'.repl /\ last'.expression.k = "Unary") =>
          LET x == last'.expression.right.value
          IN  IF last'.expression.operator = "BANG"
              THEN /\ outcome'.sig = "ok"
                   /\ outcome'.v = Bool(x \in {Nil, Bool(FALSE)})
              ELSE IF x.t = "num"
              THEN outcome'.sig = "ok" /\ outcome'.v = Num(0 - x.n)
              ELSE /\ outcome'.sig = "runtime"
                   /\ outcome'.msg = "Operand must be a number."]_vars

\* an operand of the expressions evaluated: a literal, or a call that prints
\* a number and returns a value
OperandValue(e) ==
    IF e.k = "Literal" THEN e.value ELSE e.callee.body[2].expression.value
OperandPrints(e) ==
    IF e.k = "Literal" THEN <<>>
    ELSE <<ToString(e.callee.body[1].expression.value.n)>>

\* C14: + gives the sum of two numbers and the concatenation of two strings
\* and, for every other pair of cases of value, the runtime error "Both
\* operands must be either Numbers or Strings"; in each case the left
\* operand has been evaluated, then the right one, each once.
C14_PlusOperands ==
    [][(Applied /\ ~last'.repl /\ last'.expression.k = "Binary"
           /\ last'.expression.operator = "PLUS") =>
          LET e == last'.expression
              a == OperandValue(e.left)
              b == OperandValue(e.right)
          IN  /\ Printed = OperandPrints(e.left) \o OperandPrints(e.right)
              /\ IF a.t = "num" /\ b.t = "num"
                 THEN outcome'.sig = "ok" /\ outcome'.v = Num(a.n + b.n)
                 ELSE IF a.t = "str" /\ b.t = "str"
                 THEN outcome'.sig = "ok" /\ outcome'.v = Str(a.s \o b.s)
                 ELSE /\ outcome'.sig = "runtime"
                      /\ outcome'.msg
                             = "Both operands must be either Numbers or Strings"]_vars

\* A string plus a number was refused after both operands had printed.
C14_Witness ==
    /\ steps = 4
    /\ ~last.repl
    /\ last.expression.k = "Binary"
    /\ last.expression.operator = "PLUS"
    /\ last.expression.left.k = "Call"
    /\ OperandValue(last.expression.left).t = "str"
    /\ OperandValue(last.expression.right).t = "num"
    /\ outcome.sig = "runtime"
    /\ interp.output = <<"7", "8">>

\* C15: a or b is the value of a, b not being evaluated, when a is truthy;
\* a and b is the value of a, b not being evaluated, when a is falsy;
\* otherwise b is evaluated once, after a, and its value is the result.
\* Only nil and false are falsy.
C15_LogicalShortCircuit ==
    [][(Applied /\ ~last'.repl /\ last'.expression.k = "Logical") =>
          LET e == last'.expression
              a == OperandValue(e.left)
              truthy == a \notin {Nil, Bool(FALSE)}
              short == IF e.operator = "OR" THEN truthy ELSE ~truthy
          IN  /\ outcome'.sig = "ok"
              /\ outcome'.v = IF short THEN a ELSE OperandValue(e.right)
              /\ Printed = IF short THEN OperandPrints(e.left)
                           ELSE OperandPrints(e.left) \o OperandPrints(e.right)]_vars

\* 0 or b gave 0 and b was not evaluated.
C15_Witness ==
    /\ steps = 4
    /\ ~last.repl
    /\ last.expression.k = "Logical"
    /\ last.expression.operator = "OR"
    /\ OperandValue(last.expression.left) = Num(0)
    /\ outcome.v = Num(0)
    /\ interp.output = <<"7">>

\* the value a Return carries: that of its expression, nil without one
Carried(e) == IF e = NoneNode THEN Nil ELSE e.value

\* C22: a Return executed inside a function body, nested in blocks,
\* branches of an if and loops, ends the innermost call with the carried
\* value (nil without an expression): the statements and iterations that
\* follow it in that body are skipped (only 1 is printed), the call that
\* encloses that call goes on (it prints the value and 2, and returns 3),
\* and the signal is neither raised out of the call nor a runtime error.
C22_ReturnUnwindsToCall ==
    [][(Applied /\ ~last'.repl /\ last'.expression.k = "Call") =>
          \A w1 \in Wrappers, w2 \in Wrappers, e \in Returned :
              /\ last'.expression = ReturnCall(w1, w2, e) =>
                     /\ outcome'.sig = "ok"
                     /\ outcome'.v = Carried(e)
                     /\ Printed = <<"1">>
              /\ last'.expression = NestedReturnCall(w1, w2, e) =>
                     /\ outcome'.sig = "ok"
                     /\ outcome'.v = Num(3)
                     /\ Printed = <<"1", _stringify(interp, Carried(e)), "2">>]_vars

\* return 5 inside a loop inside a block ended the inner call, and the
\* enclosing call went on and returned 3 from within its own block
C22_Witness ==
    /\ steps = 4
    /\ ~last.repl
    /\ last.expression = NestedReturnCall("Block", "While", Literal(Num(5)))
    /\ outcome.sig = "ok"
    /\ outcome.v = Num(3)
    /\ interp.output = <<"1", "5", "2">>

(***************************************************************************)
(* Properties of the scanner, the parser and the host.                     *)
(***************************************************************************)
\* the diagnostics of the scanner (errors.error) and those of Lox.error
ScanDiagnostics == {i \in 1..Len(lox.out) : lox.out[i].where = ""}
StaticDiagnostics == {i \in 1..Len(lox.out) : lox.out[i].where # ""}

\* C6: when Lox.run has run a source, evaluation was attempted if and only
\* if no parse error and no resolver error was reported for that source.
C6_EvaluationIffNoStaticErrors ==
    proc.ran => (proc.evaluated <=> StaticDiagnostics = {})

\* programs whose evaluation reads the variable a, which nothing defines
UndefinedVariableSources ==
    {<<"a", ";">>, <<"p", "r", "i", "n", "t", " ", "a", ";">>}

\* C16: when a statement of a program raises a runtime error, the error
\* unwinds to Lox.run, which reports it and sets the runtime-error flag: so
\* after a file that reads an undefined variable has been run, evaluation
\* was attempted, the flag is set and the process exits with 70.
C16_RuntimeErrorReported ==
    (proc.ran /\ proc.args = 1 /\ proc.source \in UndefinedVariableSources) =>
        /\ proc.evaluated
        /\ lox.had_runtime_error
        /\ proc.exit = 70

\* C7: once a source has been scanned the scanner is at the end of the
\* source and, when it reported an unexpected character or an unterminated
\* string, the static-error flag of the host is set.
C7_ScanErrorSetsFlag ==
    stage.pc = "scanned" =>
        /\ stage.current = Len(stage.source)
        /\ ScanDiagnostics # {} => lox.had_error

\* C8: the token list Scanner.scan returns, for the empty source too, ends
\* with a token of type EOF, and parsing it reads no token past its end.
C8_ScanEndsWithEOF ==
    /\ stage.pc \in {"scanned", "parsed"} =>
           /\ stage.tokens # <<>>
           /\ stage.tokens[Len(stage.tokens)].type = "EOF"
    /\ stage.pc = "parsed" => stage.sig # "IndexError"

\* C9: in file mode the process exits with 65 when a static error was
\* reported, else with 70 when a runtime error occurred, else with 0; with
\* more than one argument it prints the usage text and exits with 64, no
\* source having been run.
C9_ExitCodes ==
    proc.pc = "exited" =>
        /\ proc.args = 1 =>
               proc.exit = IF lox.out # <<>> \/ lox.had_error THEN 65
                           ELSE IF lox.had_runtime_error THEN 70
                           ELSE 0
        /\ proc.args > 1 => proc.usage /\ proc.exit = 64 /\ ~proc.ran

\* C10: in interactive mode the loop ends only on an empty line: whatever a
\* non-empty line leads to, a static error or a runtime error included, the
\* next line is read.
C10_PromptGoesOn ==
    (proc.pc = "exited" /\ proc.args = 0) => proc.source = <<>>

(***************************************************************************)
(* Properties of the parser on token lists that end with EOF.              *)
(***************************************************************************)
\* C17: a syntax error never leaves Parser.parse as a ParseError: after
\* every syntax error the parser synchronizes and goes on, so parse returns
\* with the cursor on the EOF token, and it returns the partial program
\* together with a non-empty list of errors kept by the parser.
C17_ParseErrorsRecorded ==
    (stage.pc = "parsed" /\ StaticDiagnostics # {}) =>
        /\ stage.sig = "ok"
        /\ stage.parser.current = Len(stage.tokens) - 1
        /\ "errors" \in DOMAIN stage.parser
        /\ stage.parser.errors # <<>>

\* the part of C17 that is about the control flow of parse alone
ParseErrorNeverEscapes ==
    stage.pc = "parsed" =>
        /\ stage.sig = "ok"
        /\ stage.parser.current = Len(stage.tokens) - 1

\* the syntax tree the claim gives for `for (initializer; condition;
\* increment) body`, None standing for an omitted clause
Desugared(initializer, condition, increment, body) ==
    LET inner == IF increment = NoneNode THEN body
                 ELSE Block(<<body, ExpressionStatement(increment)>>)
        loop == While(IF condition = NoneNode THEN Literal(Bool(TRUE))
                      ELSE condition, inner)
    IN  IF initializer = NoneNode THEN loop ELSE Block(<<initializer, loop>>)

\* C18: a for statement is parsed into
\* Block([init, While(cond, Block([body, Expression(inc)]))]), the increment
\* after the body; without init the result is the While itself, without inc
\* the body is not wrapped, without cond the condition is Literal(true); no
\* error is reported and no other statement is returned.
C18_ForDesugaring ==
    stage.pc = "parsed" =>
        \A i \in ForInitializers, c \in ForConditions, n \in ForIncrements,
           b \in ForBodies :
            stage.source = ForText(i, c, n, b) =>
                /\ stage.sig = "ok"
                /\ lox.out = <<>>
                /\ stage.statements =
                       <<Desugared(i.node, c.node, n.node, b.node)>>

\* `for (var a=1; a; a=1) print a;` has been parsed into the block of the
\* declaration and the loop, whose body ends with the increment
C18_Witness ==
    /\ stage.pc = "parsed"
    /\ stage.source = <<"f", "o", "r", "(", "v", "a", "r", " ", "a", "=", "1",
                        ";", "a", ";", "a", "=", "1", ")", "p", "r", "i", "n",
                        "t", " ", "a", ";">>
    /\ Len(stage.statements) = 1
    /\ stage.statements[1].k = "Block"
    /\ stage.statements[1].statements[2].k = "While"
    /\ stage.statements[1].statements[2].body.statements[2] =
           ExpressionStatement(Assign("a", Literal(Num(1))))

InvalidAssignmentTarget ==
    [line |-> 1, where |-> "at '='", message |-> "Invalid assignment target."]

\* C19: `a = 1` is parsed into Assign(a, 1), `a = b = 1` into
\* Assign(a, Assign(b, 1)) and `a.b = 1` into Set(a, b, 1), nothing reported;
\* for any other left-hand side, `1 = 2` or `(a) = 1`, Invalid assignment
\* target is reported once at the `=` and the statement is still parsed, as
\* the expression statement of the left-hand side.
C19_AssignmentTargets ==
    stage.pc = "parsed" =>
        /\ stage.source = <<"a", "=", "1", ";">> =>
               /\ stage.statements =
                      <<ExpressionStatement(Assign("a", Literal(Num(1))))>>
               /\ lox.out = <<>>
        /\ stage.source = <<"a", "=", "b", "=", "1", ";">> =>
               /\ stage.statements =
                      <<ExpressionStatement(
                            Assign("a", Assign("b", Literal(Num(1)))))>>
               /\ lox.out = <<>>
        /\ stage.source = <<"a", ".", "b", "=", "1", ";">> =>
               /\ stage.statements =
                      <<ExpressionStatement(
                            Set(Variable("a"), "b", Literal(Num(1))))>>
               /\ lox.out = <<>>
        /\ stage.source = <<"1", "=", "2", ";">> =>
               /\ stage.statements = <<ExpressionStatement(Literal(Num(1)))>>
               /\ lox.out = <<InvalidAssignmentTarget>>
        /\ stage.source = <<"(", "a", ")", "=", "1", ";">> =>
               /\ stage.statements =
                      <<ExpressionStatement(Grouping(Variable("a")))>>
               /\ lox.out = <<InvalidAssignmentTarget>>

(***************************************************************************)
(* Properties of the resolver.                                             *)
(***************************************************************************)
Resolved(statements) == steps >= 1 /\ last.statements = statements

\* C20: the resolver binds every use of a name to the innermost scope that
\* declares it.  In { var a = 1; { var a = 2; print a; } print a; } each
\* use of a is at distance 0 of its nearest declaration and both
\* declarations are referenced, so nothing is reported and the program
\* prints 2 then 1; in { var a = 1; { a = 2; } print a; } the assignment is
\* at distance 1 and the use at distance 0, and the program prints 2; the
\* use of b in `print b;`, a name in no scope, gets no entry.
C20_UsesBindToNearest ==
    /\ Resolved(ShadowProgram) =>
           /\ outcome.sig \in {"ok", "runtime"}
           /\ interp.locals = (Variable("a") :> 0)
           /\ last.errors = <<>>
           /\ steps = 2 => interp.output = <<"2", "1">>
    /\ Resolved(AssignProgram) =>
           /\ outcome.sig \in {"ok", "runtime"}
           /\ interp.locals = (Assign("a", Literal(Num(2))) :> 1)
                                  @@ (Variable("a") :> 0)
           /\ last.errors = <<>>
           /\ steps = 2 => interp.output = <<"2">>
    /\ Resolved(<<PrintStatement(Variable("b"))>>) =>
           /\ interp.locals = EmptyMap
           /\ last.errors = <<>>
           /\ steps = 2 => outcome.sig = "runtime"

\* the resolver's part of C20 for a name that no scope declares
GlobalNameGetsNoEntry ==
    Resolved(<<PrintStatement(Variable("b"))>>) =>
        /\ interp.locals = EmptyMap
        /\ last.errors = <<>>

\* C21: the locals side-table is keyed by the identity of the node.  In
\* { var a = 1; { print a; var a = 2; print a; } } the two uses of a are two
\* nodes with the same name on the same line: each gets its own entry, the
\* first at distance 1 and the second at distance 0, nothing is reported and
\* the program prints 1 then 2.
C21_LocalsKeyedByIdentity ==
    Resolved(TwoUsesProgram) =>
        /\ outcome.sig = "ok"
        /\ Cardinality(DOMAIN interp.locals) = 2
        /\ last.errors = <<>>
        /\ steps = 2 => interp.output = <<"1", "2">>

\* C23: a binding that is never referenced gives one diagnostic, A variable
\* is never used, when its scope is left, and that diagnostic does not set
\* the static-error flag: after { var a = 1; } has been resolved the flag is
\* unset, so the program is evaluated.
C23_UnusedVariableIsWarning ==
    Resolved(UnusedProgram) =>
        /\ outcome.sig = "ok"
        /\ last.errors = <<[token |-> NameToken("a"),
                            message |-> "A variable is never used"]>>
        /\ ~lox.had_error

\* the duplicate-declaration errors of the resolver
DuplicateErrors ==
    SelectSeq(last.errors, LAMBDA e :
        e.message = "A variable with this name is already defined in this scope.")

\* C24: a second declaration of a name in the same local scope is reported
\* once, { var a; var a; }, and a single declaration is not,
\* { var a = 1; }; declarations at the top level are nothing to the
\* resolver: `var a = 1; var a = 1;` is not reported as a duplicate and
\* leaves no binding to report, and in `var a = 1; print a;` the use of a
\* gets no entry in locals.
C24_DuplicatesInLocalScopesOnly ==
    /\ Resolved(<<Block(<<VariableDeclaration("a", NoneNode),
                          VariableDeclaration("a", NoneNode)>>)>>) =>
           /\ outcome.sig = "ok"
           /\ Len(DuplicateErrors) = 1
           /\ DuplicateErrors[1].token = NameToken("a")
    /\ Resolved(UnusedProgram) => DuplicateErrors = <<>>
    /\ Resolved(<<VariableDeclaration("a", Literal(Num(1))),
                  VariableDeclaration("a", Literal(Num(1)))>>) =>
           /\ outcome.sig = "ok"
           /\ last.errors = <<>>
    /\ Resolved(<<VariableDeclaration("a", Literal(Num(1))),
                  PrintStatement(Variable("a"))>>) =>
           /\ outcome.sig = "ok"
           /\ last.errors = <<>>
           /\ interp.locals = EmptyMap

\* the position of the EOF token, as a value of the cursor
EOFPosition == Len(stage.tokens) - 1

\* C25: Parser.parse returns for every token list that ends with EOF, the
\* cursor on the EOF token; every call of parse_declaration, from the loop
\* of parse or from that of parse_block_statement, failed and synchronized
\* or not, started before EOF and returned with the cursor further on, by
\* at least one token, and not past the EOF token.
C25_ParseTerminates ==
    stage.pc = "parsed" =>
        /\ stage.sig = "ok"
        /\ stage.parser.current = EOFPosition
        /\ \A i \in 1..Len(stage.calls) :
               /\ stage.calls[i].from < EOFPosition
               /\ stage.calls[i].from < stage.calls[i].to
               /\ stage.calls[i].to <= EOFPosition

\* `{a;+;` has been parsed: the declaration `+;` inside the block failed and
\* was synchronized up to EOF, then the block failed for its missing brace
C25_Witness ==
    /\ stage.pc = "parsed"
    /\ stage.source = <<"{", "a", ";", "+", ";">>
    /\ stage.calls = <<[from |-> 1, to |-> 3], [from |-> 3, to |-> 5],
                       [from |-> 0, to |-> 5]>>
    /\ Len(lox.out) = 2
    /\ stage.statements = <<NoneNode>>
====
